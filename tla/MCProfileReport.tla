--------------------------- MODULE MCProfileReport ---------------------------
(* Values for the constants of ProfileReport that a .cfg cannot write. *)
EXTENDS ProfileReport, TLC

\* Allocation order: neither the order of the hashes nor its reverse.
MCAddress == [h \in Hashes |-> CASE h = 0 -> 2 [] h = 1 -> 3 [] OTHER -> 1]

\* Threads are told apart by nothing but their identity.
ThreadSymmetry == Permutations(Threads)

(***************************************************************************)
(* Two charges, of one block by both threads among them, are made without  *)
(* accesses: what is charged and what is reused are reported apart.        *)
(***************************************************************************)
Focus == TicksMade = 2 => AccessesMade = 0

FocusedSpec == ReportInit /\ [][ReportNext /\ Focus']_<<collectorVars, reportVars>>
=============================================================================
