------------------------------ MODULE ChangeFeed ------------------------------
(***************************************************************************)
(* What a log binding promises its subscribers, with no stores, sessions,  *)
(* events or call stacks: a subscriber starts from everything known when   *)
(* it joined and is told the rest, never anything that is not known, and   *)
(* nothing it was told is taken back while the binding stays mounted.      *)
(***************************************************************************)
CONSTANTS Thing, Subscribers

VARIABLES
  known,   \* what the binding holds
  joined,  \* the subscribers
  told     \* told[s]: what s was told, by the refresh and the deltas

feed == <<known, joined, told>>

Init ==
  /\ known = {}
  /\ joined = {}
  /\ told = [s \in Subscribers |-> {}]

Learn ==
  /\ known \subseteq known' /\ known' # known
  /\ UNCHANGED <<joined, told>>

Join(s) ==
  /\ s \notin joined
  /\ joined' = joined \cup {s}
  /\ told' = [told EXCEPT ![s] = known]
  /\ UNCHANGED known

Leave(s) ==
  /\ s \in joined
  /\ joined' = joined \ {s}
  /\ UNCHANGED <<known, told>>

\* One report tells a subscriber something new, all of it known.
Report(s) ==
  /\ s \in joined
  /\ told[s] # known
  /\ \E news \in SUBSET (known \ told[s]) :
       news # {} /\ told' = [told EXCEPT ![s] = @ \cup news]
  /\ UNCHANGED <<known, joined>>

\* The binding is mounted anew, with all or none of what it held.
Remount ==
  /\ known' \in {known, {}}
  /\ joined' = {}
  /\ told' = [s \in Subscribers |-> {}]

Next ==
  \/ Learn
  \/ \E s \in Subscribers : Join(s) \/ Leave(s) \/ Report(s)
  \/ Remount

Spec == Init /\ [][Next]_feed

\* A subscriber that stays and has not been told everything is told more.
FairSpec == Spec /\ \A s \in Subscribers : WF_feed(Report(s))
=============================================================================
