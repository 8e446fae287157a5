--------------------------- MODULE ClaimAdmission ---------------------------
(***************************************************************************)
(* What claim admission promises for one grant, independent of accounts, *)
(* signatures, clocks and tokens (spec.md sections 3 and 4.3-4.6):        *)
(*   - a (claimer, period) pair is admitted at most once;                 *)
(*   - every admission appends exactly one entry to a single append-only  *)
(*     proof-of-process log; the entry names that claimer and period and  *)
(*     links both of its strands to the previous entry (genesis: Genesis).*)
(* Nothing else ever changes the admitted set or the log.                 *)
(* An entry is identified with its hash, so an entry's link is the        *)
(* previous entry itself.                                                 *)
(***************************************************************************)
EXTENDS Sequences, SequencesExt

CONSTANTS Claimers, Periods, Genesis

VARIABLES claimed, chain

\* The hash the next entry must link to.
LogHead == IF chain = <<>> THEN Genesis ELSE Last(chain)

Admit(c, p) ==
  /\ <<c, p>> \notin claimed
  /\ claimed' = claimed \cup {<<c, p>>}
  /\ Len(chain') = Len(chain) + 1
  /\ IsPrefix(chain, chain')
  /\ LET e == Last(chain') IN
       /\ e.claimer = c
       /\ e.period_index = p
       /\ e.prev_hash = LogHead
       /\ e.stream_prev_hash = LogHead

Init == claimed = {} /\ chain = <<>>

Next == \E c \in Claimers, p \in Periods : Admit(c, p)

Spec == Init /\ [][Next]_<<claimed, chain>>

=============================================================================
