---------------------------- MODULE AppendOnlyLog ----------------------------
(***************************************************************************)
(* What a transparency log promises its auditors, with no process, lock,   *)
(* cache, database or crash in sight: one ledger that only grows, and      *)
(* published tree heads that each commit to the whole ledger as it was at  *)
(* the moment of publication.  TransparencyLog is shown to implement it.   *)
(***************************************************************************)
EXTENDS Naturals, SequencesExt

CONSTANT Leaf       \* the values the ledger holds

VARIABLES
  ledger,           \* every leaf of the log, in append order
  heads             \* the tree heads published so far, as the leaves they cover

ledgerVars == <<ledger, heads>>

Init ==
  /\ ledger = << >>
  /\ heads = {}

Extend(leaf) ==
  /\ ledger' = Append(ledger, leaf)
  /\ UNCHANGED heads

Publish ==
  /\ heads' = heads \cup {ledger}
  /\ UNCHANGED ledger

Next ==
  \/ \E leaf \in Leaf : Extend(leaf)
  \/ Publish

Spec == Init /\ [][Next]_ledgerVars

-----------------------------------------------------------------------------
LedgerTypeOK ==
  /\ ledger \in Seq(Leaf)
  /\ heads \subseteq Seq(Leaf)

\* Every published head is a prefix of the ledger: no auditor holds a head the
\* log has contradicted.
HeadsAreHistory == \A h \in heads : IsPrefix(h, ledger)

\* Two published heads never tell different stories: one extends the other.
SingleHistory == \A g, h \in heads : IsPrefix(g, h) \/ IsPrefix(h, g)
=============================================================================
