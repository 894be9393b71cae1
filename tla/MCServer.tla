------------------------------ MODULE MCServer ------------------------------
(***************************************************************************)
(* For TLC: the database file across boots, and the server that the static *)
(* demo plays in the browser.  They share nothing, and each is checked as  *)
(* if it were alone: focus says which one a behaviour is about.            *)
(***************************************************************************)
EXTENDS BootGuard

VARIABLES
    focus,
    demo, session, demoAsked, resetting, loads, writes, spoiled, relaxed

demoVars == <<demo, session, demoAsked, resetting, loads, writes, spoiled, relaxed>>

(* The recording has three posts, a country with a city, and a demo tag    *)
(* above the city besides.                                                 *)
Demo == INSTANCE DemoSite WITH asked <- demoAsked, MaxPosts <- 4, MaxWrites <- 3, MaxLoads <- 1

ServerInit ==
    /\ focus \in {"boot", "demo"}
    /\ Init
    /\ Demo!Init

ServerNext ==
    /\ UNCHANGED focus
    /\ \/ focus = "boot" /\ Next /\ UNCHANGED demoVars
       \/ focus = "demo" /\ Demo!Next /\ UNCHANGED vars

ServerSpec == ServerInit /\ [][ServerNext]_<<focus, vars, demoVars>>

(* DemoSite.                                                               *)
DemoKept == focus = "demo" =>
    /\ Demo!TypeOK
    /\ Demo!NothingLeaks
    /\ Demo!OwnerSeesMore
    /\ Demo!PagesPartition
    /\ Demo!EditsAreKept
    /\ Demo!SlotsHold

=============================================================================
