------------------------------ MODULE Reporter ------------------------------
(***************************************************************************)
(* The reporter of one function: which of the diagnostics it is handed     *)
(* reach the user.  reports maps a source location to the one diagnostic   *)
(* shown there; its domain is the set WarningLocs.  The wording and the    *)
(* notes are left out.                                                     *)
(***************************************************************************)
EXTENDS CppsafeOptions, Naturals, Sequences, SequencesExt

(* Without --Wlifetime-null only certain null dereferences are shown. *)
IsNullSuppressed(d) ==
  /\ ~LifetimeNull
  /\ d.possibly
  /\ d.kind \in {"Null", "AssignNull", "DerefNull"}

IsDisabled(d) ==
  \/ d.kind = "PsetOfGlobal" /\ ~LifetimeGlobal
  \/ d.kind \in {"PointerArithmetic", "UnsafeCast", "NakedNewDelete"} /\ ~LifetimeDisabled

(* suppressed: the locations inside [[gsl::suppress("lifetime")]] code. *)
IsSuppressed(suppressed, d) == d.loc \in suppressed

(* Only the first diagnostic at a location is shown. *)
Report(reports, suppressed, d) ==
  IF \/ IsSuppressed(suppressed, d)
     \/ IsNullSuppressed(d)
     \/ IsDisabled(d)
     \/ d.loc \in DOMAIN reports
  THEN reports
  ELSE [l \in DOMAIN reports \cup {d.loc} |->
          IF l = d.loc THEN [kind |-> d.kind, possibly |-> d.possibly] ELSE reports[l]]

ReportAll(reports, suppressed, diags) ==
  LET One(shown, d) == Report(shown, suppressed, d) IN FoldLeft(One, reports, diags)
=============================================================================
