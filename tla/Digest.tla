-------------------------------- MODULE Digest --------------------------------
(***************************************************************************)
(* Render of reconciler.go: from the reports of a run to the digest.       *)
(*                                                                         *)
(* A report has a version, a task, lines and findings; a digest is a       *)
(* sequence of entries, each marked with what it is.  A loop that appends  *)
(* is FlattenSeq of what each of its turns appends.                        *)
(***************************************************************************)
EXTENDS Integers, Sequences, SequencesExt

\* Mutated form: a version is listed again when its reports resume.
VersionOrderRuns(reports) ==
    FlattenSeq([i \in DOMAIN reports |->
        IF i > 1 /\ reports[i - 1].version = reports[i].version
        THEN <<>> ELSE <<reports[i].version>>])

\* The versions, in the order of their first reports.
VersionOrder(reports) ==
    FlattenSeq([i \in DOMAIN reports |->
        IF \E k \in 1..(i - 1) : reports[k].version = reports[i].version
        THEN <<>> ELSE <<reports[i].version>>])

ByVersion(reports, v) ==
    FlattenSeq([i \in DOMAIN reports |->
        IF reports[i].version = v THEN <<reports[i]>> ELSE <<>>])

ReportEntries(r) ==
    <<<<"task", r.task>>>> \o [i \in DOMAIN r.lines |-> <<"line", r.lines[i]>>]

FindingEntries(r) == [i \in DOMAIN r.findings |-> <<"finding", r.version, r.task, r.findings[i]>>]

Section(reports, v) ==
    LET own == ByVersion(reports, v)
    IN <<<<"version", v>>>> \o FlattenSeq([i \in DOMAIN own |-> ReportEntries(own[i])])

FindingsOf(reports, v) ==
    LET own == ByVersion(reports, v)
    IN FlattenSeq([i \in DOMAIN own |-> FindingEntries(own[i])])

\* A section for each version, and all findings after them, in the same order.
Render(reports) ==
    LET order == VersionOrder(reports)
        found == FlattenSeq([i \in DOMAIN order |-> FindingsOf(reports, order[i])])
    IN FlattenSeq([i \in DOMAIN order |-> Section(reports, order[i])])
       \o (IF found = <<>> THEN <<>> ELSE <<<<"findings">>>> \o found)

=============================================================================
