---------------------------- MODULE FindingReview ----------------------------
(***************************************************************************)
(* One finding about one run, the repair proposed for it, and the people   *)
(* who review the repair and move the finding.  A person decides on what a *)
(* page showed; the finding, the patch and the other reviews may all have  *)
(* moved before the decision arrives.                                      *)
(***************************************************************************)
EXTENDS Naturals, Sequences

CONSTANTS People, Author, Slips, MaxPatch, MaxMoves, NoReviewer

\* A patch and a move fit the bounds, and citing no review is citing none.
ASSUME ReviewAssumption == MaxPatch \in Nat \ {0} /\ MaxMoves \in Nat \ {0} /\ NoReviewer \notin Slips

VARIABLES
  outcome,  \* the run's outcome
  finding,  \* finding.status, or "none"
  trail,    \* finding_transition, and the status each actor had been shown
  proposal, \* the patch proposed now
  review,   \* review: append-only rows
  shown     \* the finding's revision and status, and the patch, on each person's page

reviewVars == <<outcome, finding, trail, proposal, review, shown>>

Statuses == {"CANDIDATE", "REPRODUCED", "DISMISSED", "RESOLVED"}
Verdicts == {"ACCEPT", "CHANGES_REQUESTED", "UNABLE_TO_ASSESS"}
NoReview == [by |-> NoReviewer, verdict |-> "none", patch |-> 0, supersedes |-> NoReviewer]
NoPage == [revision |-> 0, status |-> "none", patch |-> 0]

ReviewTypeOK ==
  /\ outcome \in {"FAIL", "INCONCLUSIVE"} /\ finding \in Statuses \cup {"none"}
  /\ trail \in Seq([from : Statuses \cup {"none"}, to : Statuses, saw : Statuses \cup {"none"},
                    review : Slips \cup {NoReviewer}])
  /\ proposal \in 1 .. MaxPatch
  /\ review \in [Slips -> [by : People, verdict : Verdicts, patch : 1 .. MaxPatch,
                           supersedes : Slips \cup {NoReviewer}] \cup {NoReview}]
  /\ shown \in [People -> [revision : 0 .. MaxMoves, status : Statuses \cup {"none"}, patch : 0 .. MaxPatch]]

ReviewInit ==
  /\ outcome \in {"FAIL", "INCONCLUSIVE"} /\ finding = "none" /\ trail = <<>>
  /\ proposal = 1 /\ review = [s \in Slips |-> NoReview]
  /\ shown = [u \in People |-> NoPage]

\* finding.revision
Revision == Len(trail)
Written == {s \in Slips : review[s] # NoReview}

\* _ADMISSIBLE
AdmissibleMove == [CANDIDATE  |-> {"REPRODUCED", "DISMISSED"},
               REPRODUCED |-> {"RESOLVED", "DISMISSED"},
               DISMISSED  |-> {"CANDIDATE", "REPRODUCED"},
               RESOLVED   |-> {"REPRODUCED"}]
---------------------------------------------------------------------------
\* diagnoses.retain: the status a finding opens with; support is the model's, only FAIL counts
OpensAs(supported) == IF outcome = "FAIL" /\ supported THEN "REPRODUCED" ELSE "CANDIDATE"

CreateFinding(supported) ==
  /\ finding = "none"
  /\ finding' = OpensAs(supported)
  /\ trail' = <<[from |-> "none", to |-> OpensAs(supported), saw |-> "none", review |-> NoReviewer]>>
  /\ UNCHANGED <<outcome, proposal, review, shown>>

GetFinding(u) ==
  /\ shown' = [shown EXCEPT ![u] = [revision |-> Revision, status |-> finding, patch |-> proposal]]
  /\ UNCHANGED <<outcome, finding, trail, proposal, review>>

ProposeAgain ==
  /\ proposal < MaxPatch /\ proposal' = proposal + 1
  /\ UNCHANGED <<outcome, finding, trail, review, shown>>

\* submit_review: the digest looked at, the "current" one and the patch's author all come from
\* the request's body, and an author who is not named is not compared
Independent(u, named) == named => u # Author
SubmitReview(u, named, s, verdict, old) ==
  /\ review[s] = NoReview /\ Independent(u, named) /\ shown[u].patch # 0
  /\ old \in Written \cup {NoReviewer}
  /\ review' = [review EXCEPT ![s] = [by |-> u, verdict |-> verdict, patch |-> shown[u].patch,
                                      supersedes |-> old]]
  /\ UNCHANGED <<outcome, finding, trail, proposal, shown>>

\* mutant: any review will do
AnyCited(s) == s \in Written
\* transition_finding: the review cited for RESOLVED
Cited(s) == s \in Written /\ review[s].verdict = "ACCEPT"
SameRevision(u) == shown[u].revision = Revision

TransitionFinding(u, to, s) ==
  /\ finding # "none" /\ Revision < MaxMoves
  /\ SameRevision(u)
  /\ to \in AdmissibleMove[finding]
  /\ IF to = "RESOLVED" THEN Cited(s) ELSE s = NoReviewer
  /\ finding' = to
  /\ trail' = Append(trail, [from |-> finding, to |-> to, saw |-> shown[u].status, review |-> s])
  /\ UNCHANGED <<outcome, proposal, review, shown>>

ReviewNext ==
  \/ \E supported \in BOOLEAN : CreateFinding(supported)
  \/ \E u \in People :
       \/ GetFinding(u)
       \/ \E named \in BOOLEAN, s \in Slips, verdict \in Verdicts, old \in Slips \cup {NoReviewer} :
            SubmitReview(u, named, s, verdict, old)
       \/ \E to \in Statuses, s \in Slips \cup {NoReviewer} : TransitionFinding(u, to, s)
  \/ ProposeAgain

ReviewSpec == ReviewInit /\ [][ReviewNext]_reviewVars
---------------------------------------------------------------------------
\* The trail is the finding's life without gaps, and whoever moved it had been shown the
\* status it was moved from: no decision lands on a state its author never saw.
DecidedOnWhatWasSeen ==
  /\ trail # <<>> => finding = trail[Len(trail)].to
  /\ \A i \in 2 .. Len(trail) : trail[i].from = trail[i - 1].to /\ trail[i].saw = trail[i].from

\* Each time the finding was resolved, the transition names a review that was written before
\* and accepted a repair, whatever was requested, withdrawn or superseded around it.
ResolvedWasAccepted ==
  \A i \in DOMAIN trail : trail[i].to = "RESOLVED" =>
    trail[i].review \in Written /\ review[trail[i].review].verdict = "ACCEPT"

\* A finding's history is decided by people who saw what they decided on, and says RESOLVED
\* only of an accepted repair.
ReviewIsInformed == ReviewTypeOK /\ DecidedOnWhatWasSeen /\ ResolvedWasAccepted
=============================================================================
