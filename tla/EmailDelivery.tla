--------------------------- MODULE EmailDelivery ---------------------------
(***************************************************************************)
(* What the email notifier promises for each email, whatever its queue,    *)
(* its workers and its rate limiter do: an email is refused or accepted;   *)
(* an accepted one is offered to the provider at most MaxAttempts times,   *)
(* never again once its fate is settled, and it is settled as failed only  *)
(* when the attempts are used up.                                          *)
(***************************************************************************)
EXTENDS Naturals

CONSTANTS
  Emails, MaxAttempts,
  Delivers   \* does an offer reach a mail system at all?

VARIABLES fate,      \* what has become of each email
          attempts,  \* calls of the provider for it
          delivered  \* copies the mail system took

dvars == <<fate, attempts, delivered>>

Fates == {"new", "rejected", "accepted", "sent", "failed", "dropped"}

DInit ==
  /\ fate = [e \in Emails |-> "new"]
  /\ attempts = [e \in Emails |-> 0] /\ delivered = [e \in Emails |-> 0]

Submit(e) ==
  /\ fate[e] = "new"
  /\ \E f \in {"accepted", "rejected"} : fate' = [fate EXCEPT ![e] = f]
  /\ UNCHANGED <<attempts, delivered>>

(* The provider says that the email is sent, or reports an error: a mail   *)
(* system may then have taken it all the same.                             *)
Copied(e) == [delivered EXCEPT ![e] = IF Delivers THEN @ + 1 ELSE @]

Offer(e) ==
  /\ fate[e] = "accepted" /\ attempts[e] < MaxAttempts
  /\ attempts' = [attempts EXCEPT ![e] = @ + 1]
  /\ \/ /\ fate'      = [fate EXCEPT ![e] = "sent"]
        /\ delivered' = Copied(e)
     \/ /\ fate' = [fate EXCEPT ![e] = IF attempts[e] + 1 = MaxAttempts THEN "failed" ELSE @]
        /\ delivered' \in {delivered, Copied(e)}

Drop(e) ==
  /\ fate[e] = "accepted"
  /\ fate' = [fate EXCEPT ![e] = "dropped"]
  /\ UNCHANGED <<attempts, delivered>>

DNext == \E e \in Emails : Submit(e) \/ Offer(e) \/ Drop(e)
DSpec == DInit /\ [][DNext]_dvars

(* What a recipient and the provider get of it: no email is offered or     *)
(* copied more than MaxAttempts times, one that was refused never, one     *)
(* that failed has had all its attempts, and one that was sent is there if *)
(* offers reach a mail system; otherwise there is no copy of any.          *)
Bounded ==
  \A e \in Emails :
    /\ attempts[e] <= MaxAttempts /\ delivered[e] <= attempts[e]
    /\ fate[e] \in {"new", "rejected"} => attempts[e] = 0
    /\ IF Delivers THEN fate[e] = "sent" => delivered[e] > 0 ELSE delivered[e] = 0
    /\ fate[e] = "failed" => attempts[e] = MaxAttempts
=============================================================================
