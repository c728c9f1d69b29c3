------------------------------- MODULE Mailbox -------------------------------
(***************************************************************************)
(* What the broadcaster promises: one channel on which messages are posted *)
(* and readers who each get every message at most once and in the order of *)
(* posting, or lose it for good.  Nobody says when, or how many are lost.  *)
(***************************************************************************)
EXTENDS Integers, Sequences, SequencesExt

CONSTANT Readers

VARIABLES
  sent,   \* the messages posted, in order
  got,    \* got[r]: those that r has been given, in order
  lost    \* lost[r]: those that r will never be given

mailbox == <<sent, got, lost>>

Init ==
  /\ sent = <<>>
  /\ got  = [r \in Readers |-> <<>>]
  /\ lost = [r \in Readers |-> {}]

Waiting(r) == ToSet(sent) \ (ToSet(got[r]) \cup lost[r])

\* A new message; some readers are not there to receive it.
Post ==
  /\ Len(sent') = Len(sent) + 1 /\ sent' = Append(sent, Last(sent'))
  /\ Last(sent') \notin ToSet(sent)
  /\ \E away \in SUBSET Readers :
       lost' = [r \in Readers |-> IF r \in away THEN lost[r] \cup {Last(sent')} ELSE lost[r]]
  /\ UNCHANGED got

\* The oldest message that waits for r.
Deliver(r) ==
  /\ \E m \in Waiting(r) :
       /\ \A i, j \in DOMAIN sent : sent[i] = m /\ sent[j] \in Waiting(r) => i <= j
       /\ got' = [got EXCEPT ![r] = Append(@, m)]
  /\ UNCHANGED <<sent, lost>>

Lose(r) ==
  /\ \E some \in SUBSET Waiting(r) : lost' = [lost EXCEPT ![r] = @ \cup some]
  /\ UNCHANGED <<sent, got>>

Next == Post \/ \E r \in Readers : Deliver(r) \/ Lose(r)

Spec == Init /\ [][Next]_mailbox

=============================================================================
