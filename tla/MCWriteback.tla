---------------------------- MODULE MCWriteback ----------------------------
(* Small instances of Writeback for TLC. *)
EXTENDS Writeback, TLC

CONSTANTS report1, report2

TwoReports == {report1, report2}

\* Two reviews of one pull request, and pull requests of one number in two repositories.
OneRepo == [x \in TwoReports |-> "repo"]
TwoRepos == report1 :> "repo" @@ report2 :> "other repo"
SameNumber == [x \in TwoReports |-> 7]

Payload(report, decision, comment, on) ==
  [report |-> report, decision |-> decision, rationale |-> "", comment |-> comment,
   writeback |-> on]

\* Approvals that share their text, a rejection, and a decision that is not
\* written back; then also a commented approval and one kept internal.
Approvals == {Payload(x, "APPROVE", "", TRUE) : x \in TwoReports}

FourPayloads ==
  Approvals \cup {Payload(report1, "REJECT", "", TRUE),
                 Payload(report1, "REQUEST_CHANGES", "", TRUE)}

SixPayloads ==
  FourPayloads \cup {Payload(report1, "APPROVE", "nice", TRUE),
                    Payload(report1, "APPROVE", "", FALSE)}

OneApproval == {Payload(report1, "APPROVE", "", TRUE)}
=============================================================================
