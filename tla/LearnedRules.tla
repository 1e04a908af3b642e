---------------------------- MODULE LearnedRules ----------------------------
(***************************************************************************)
(* What the learning engine promises (spec.md 4.7), without locks, groups *)
(* or tickers.  A rule is a triple <<rootPid, filter key, process>>.  The *)
(* engine observes accesses, learns some of the observed triples, and     *)
(* ships everything it has learned at once, starting afresh; a reset of   *)
(* the container's rules forgets what it had learned and not shipped.     *)
(* Shipped rules are not re-queued, whatever the controller did with      *)
(* them.                                                                   *)
(***************************************************************************)
EXTENDS FiniteSets

CONSTANTS Pids, Keys, Procs

VARIABLES
    seen,     \* the triples some access showed
    learned,  \* the triples learned and not yet shipped
    shipped   \* the triples handed to the controller

avars == <<seen, learned, shipped>>

Triples == Pids \X Keys \X Procs

TypeOK ==
    /\ seen \subseteq Triples
    /\ learned \subseteq Triples
    /\ shipped \subseteq Triples

Init ==
    /\ seen = {}
    /\ learned = {}
    /\ shipped = {}

\* a process accesses files that filters match
Observe ==
    /\ \E S \in SUBSET Triples : seen \subseteq S /\ seen' = S
    /\ UNCHANGED <<learned, shipped>>

\* some observed triples are learned
Learn ==
    /\ \E T \in SUBSET seen : ~(T \subseteq learned) /\ learned' = learned \cup T
    /\ UNCHANGED <<seen, shipped>>

\* the learned triples are shipped as one batch and the engine starts afresh
Ship ==
    /\ learned # {}
    /\ shipped' = shipped \cup learned
    /\ learned' = {}
    /\ UNCHANGED seen

\* the rules of one container are reset or deleted
Forget(pid) ==
    /\ learned' = {t \in learned : t[1] # pid}
    /\ UNCHANGED <<seen, shipped>>

Next ==
    \/ Observe
    \/ Learn
    \/ Ship
    \/ \E pid \in Pids : Forget(pid)

\* what is learned is eventually shipped, unless it is forgotten first
Spec == Init /\ [][Next]_avars /\ WF_avars(Ship)

(* Everything learned or shipped was observed.                             *)
LearnedObserved == learned \cup shipped \subseteq seen
=============================================================================
