--------------------------- MODULE EventBusProofs ---------------------------
(***************************************************************************)
(* Proofs about EventBus for any number of sessions and any capacities.    *)
(*                                                                         *)
(* GapFree is not inductive by itself: whether the next event sent is the  *)
(* successor of the last one depends on the replay window being a run that *)
(* ends at the newest event, on the backlog being the run that follows the *)
(* last event sent, and on the broadcast receiver standing no later than   *)
(* the end of that backlog.  Window and SessionInv say so.                 *)
(***************************************************************************)
EXTENDS EventBus, TLAPS, WellFoundedInduction, FiniteSetTheorems, SequenceTheorems

(* The replay window holds, with any event, every newer one.               *)
Window ==
    /\ replay \subseteq 1..LastSequence
    /\ \A n \in replay : \A m \in n..LastSequence : m \in replay

(* What a session knows between two of its steps.                          *)
SessionInv(s) ==
    /\ after[s] <= last_sent[s]
    /\ receiver[s] <= next_sequence
    /\ phase[s] = "subscribed" => last_sent[s] = after[s]
    /\ phase[s] = "replaying" =>
        /\ last_sent[s] <= LastSequence
        /\ \A n \in backlog[s] : last_sent[s] < n /\ n <= LastSequence
        /\ \A n \in backlog[s] : \A m \in (last_sent[s] + 1)..n : m \in backlog[s]
        /\ \A m \in (last_sent[s] + 1)..(receiver[s] - 1) : m \in backlog[s]
    /\ phase[s] = "live" =>
        /\ last_sent[s] <= LastSequence
        /\ receiver[s] <= last_sent[s] + 1

IInv == TypeOK /\ Window /\ GapFree /\ \A s \in Sessions : SessionInv(s)

-----------------------------------------------------------------------------
(* A non-empty set of naturals has a least element, and Min returns it.    *)
LEMMA MinIsLeast ==
    ASSUME NEW S \in SUBSET Nat, S # {}
    PROVE  Min(S) \in S /\ \A y \in S : Min(S) <= y
<1>. DEFINE R == {ss \in Nat \X Nat : ss[1] < ss[2]}
<1>1. IsWellFoundedOn(R, Nat)
  BY NatLessThanWellFounded DEF OpToRel
<1>2. PICK x \in S : \A y \in S : ~(<<y, x>> \in R)
  <2>. HIDE DEF R
  <2>. QED  BY <1>1, WFMin, Zenon
<1>3. ASSUME NEW y \in S PROVE x <= y
  <2>1. x \in Nat /\ y \in Nat
    OBVIOUS
  <2>2. y < x => <<y, x>> \in R
    BY <2>1
  <2>. QED
    BY <1>2, <2>1, <2>2
<1>. QED
  BY <1>3, Zenon DEF Min

(* One more event written: Append extends the run by its successor.        *)
LEMMA AppendSuccessor ==
    ASSUME NEW d \in Seq(Nat), NEW a \in Nat, NEW l \in Nat,
           Len(d) = l - a, \A i \in 1..Len(d) : d[i] = a + i
    PROVE  /\ Append(d, l + 1) \in Seq(Nat)
           /\ Len(Append(d, l + 1)) = (l + 1) - a
           /\ \A i \in 1..Len(Append(d, l + 1)) : Append(d, l + 1)[i] = a + i
<1>1. l + 1 \in Nat
  OBVIOUS
<1>2. /\ Append(d, l + 1) \in Seq(Nat)
      /\ Len(Append(d, l + 1)) = Len(d) + 1
      /\ \A i \in 1..Len(d) : Append(d, l + 1)[i] = d[i]
      /\ Append(d, l + 1)[Len(d) + 1] = l + 1
  BY <1>1, AppendProperties
<1>3. Len(d) \in Nat
  BY LenProperties
<1>4. \A i \in 1..(Len(d) + 1) : i \in 1..Len(d) \/ i = Len(d) + 1
  BY <1>3
<1>5. a + (Len(d) + 1) = l + 1
  BY <1>3
<1>6. Len(Append(d, l + 1)) = (l + 1) - a
  BY <1>2, <1>3
<1>7. ASSUME NEW i \in 1..Len(Append(d, l + 1)) PROVE Append(d, l + 1)[i] = a + i
  <2>1. CASE i \in 1..Len(d)
    BY <1>2, <2>1, Zenon
  <2>2. CASE i = Len(d) + 1
    BY <1>2, <1>5, <2>2, Zenon
  <2>. QED
    BY <1>2, <1>4, <2>1, <2>2, Zenon
<1>. QED
  BY <1>2, <1>6, <1>7, Zenon

(* The sequence counter and the replay window stay well formed.            *)
LEMMA PublishKeepsWindow ==
    ASSUME TypeOK, Window, publish
    PROVE  /\ next_sequence' \in 1..(MaxSequence + 1)
           /\ replay' \in SUBSET (1..MaxSequence)
           /\ Window'
<1>. DEFINE grown == replay \cup {next_sequence}
<1>1. /\ next_sequence \in Nat
      /\ next_sequence' = next_sequence + 1
      /\ 1 <= next_sequence /\ next_sequence <= MaxSequence
      /\ MaxSequence \in Nat
  BY CapacityAssumption DEF TypeOK, publish
<1>0. replay' = grown \/ replay' = grown \ {Min(grown)}
  BY Zenon DEF publish, PushReplay
<1>2. grown \subseteq 1..next_sequence /\ grown \in SUBSET Nat /\ grown # {}
  BY <1>1 DEF Window, LastSequence
<1>3. \A n \in grown : \A m \in n..next_sequence : m \in grown
  BY <1>1, <1>2 DEF Window, LastSequence
<1>4. \A y \in grown : Min(grown) <= y
  BY <1>2, MinIsLeast
<1>5. Min(grown) \in grown
  BY <1>2, MinIsLeast
<1>. HIDE DEF grown
<1>6. replay' \subseteq 1..next_sequence
  BY <1>0, <1>2, Zenon
<1>7. \A n \in replay' : \A m \in n..next_sequence : m \in replay'
  <2>. SUFFICES ASSUME NEW n \in replay', NEW m \in n..next_sequence
                PROVE  m \in replay'
    OBVIOUS
  <2>0. n \in grown
    BY <1>0
  <2>1. n \in grown /\ m \in grown /\ n \in Nat /\ m \in Nat /\ n <= m
    BY <2>0, <1>1, <1>2, <1>3
  <2>2. CASE replay' = grown
    BY <2>1, <2>2
  <2>3. CASE replay' = grown \ {Min(grown)}
    <3>1. n # Min(grown) /\ Min(grown) <= n /\ Min(grown) \in Nat
      BY <1>2, <1>4, <1>5, <2>1, <2>3, Zenon
    <3>. QED
      BY <2>1, <2>3, <3>1
  <2>. QED
    BY <1>0, <2>2, <2>3
<1>. QED
  BY <1>1, <1>6, <1>7 DEF Window, LastSequence

-----------------------------------------------------------------------------
(* The part of the invariant that concerns one session.                    *)
RunInv(s) ==
    /\ Len(delivered[s]) = last_sent[s] - after[s]
    /\ \A i \in 1..Len(delivered[s]) : delivered[s][i] = after[s] + i

LEMMA InitIInv == Init => IInv
<1>. SUFFICES ASSUME Init PROVE IInv
  OBVIOUS
<1>1. TypeOK
  BY CapacityAssumption DEF Init, InitBus, TypeOK, Phases
<1>2. Window
  BY DEF Init, InitBus, Window
<1>3. GapFree
  BY DEF Init, GapFree
<1>4. \A s \in Sessions : SessionInv(s)
  BY DEF Init, InitBus, SessionInv
<1>. QED
  BY <1>1, <1>2, <1>3, <1>4 DEF IInv

LEMMA PublishIInv == IInv /\ publish => IInv'
<1>. SUFFICES ASSUME IInv, publish PROVE IInv'
  OBVIOUS
<1>. USE DEF IInv
<1>1. /\ next_sequence' \in 1..(MaxSequence + 1)
      /\ replay' \in SUBSET (1..MaxSequence)
      /\ Window'
  BY PublishKeepsWindow
<1>2. UNCHANGED sessionVars
  BY DEF publish
<1>3. TypeOK'
  BY <1>1, <1>2 DEF TypeOK, sessionVars
<1>4. GapFree'
  BY <1>2 DEF GapFree, sessionVars
<1>5. ASSUME NEW s \in Sessions PROVE SessionInv(s)'
  <2>1. SessionInv(s)
    OBVIOUS
  <2>2. next_sequence \in Nat /\ next_sequence' = next_sequence + 1
    BY CapacityAssumption DEF publish, TypeOK
  <2>3. last_sent[s] \in Nat /\ receiver[s] \in Nat /\ backlog[s] \in SUBSET Nat
    BY CapacityAssumption DEF TypeOK
  <2>. QED
    BY <1>2, <2>1, <2>2, <2>3 DEF SessionInv, sessionVars, LastSequence
<1>. QED
  BY <1>1, <1>3, <1>4, <1>5

(* A session step leaves the bus and every other session alone, so it is   *)
(* enough to re-establish the acting session's own part.                   *)
LEMMA SessionStepIInv ==
    ASSUME IInv, TypeOK', NEW s \in Sessions, UNCHANGED busVars,
           RunInv(s)', SessionInv(s)',
           \A t \in Sessions \ {s} :
               /\ phase'[t] = phase[t]
               /\ after'[t] = after[t]
               /\ receiver'[t] = receiver[t]
               /\ backlog'[t] = backlog[t]
               /\ last_sent'[t] = last_sent[t]
               /\ delivered'[t] = delivered[t]
    PROVE  IInv'
<1>1. Window'
  BY DEF IInv, Window, busVars, LastSequence
<1>2. GapFree'
  BY DEF IInv, GapFree, RunInv
<1>3. ASSUME NEW t \in Sessions, t # s PROVE SessionInv(t)'
  BY <1>3 DEF IInv, SessionInv, busVars, LastSequence
<1>. QED
  BY <1>1, <1>2, <1>3 DEF IInv

(* What the invariant says of one session, with its types spelled out.     *)
LEMMA SessionFacts ==
    ASSUME IInv, NEW s \in Sessions
    PROVE  /\ next_sequence \in Nat /\ next_sequence >= 1
           /\ after[s] \in Nat /\ last_sent[s] \in Nat
           /\ receiver[s] \in Nat /\ receiver[s] >= 1
           /\ backlog[s] \in SUBSET Nat
           /\ delivered[s] \in Seq(Nat)
           /\ RunInv(s) /\ SessionInv(s)
BY CapacityAssumption DEF IInv, TypeOK, GapFree, RunInv

LEMMA SubscribeIInv ==
    ASSUME IInv, NEW s \in Sessions, NEW sequence \in Nat, subscribe(s, sequence)
    PROVE  IInv'
<1>1. next_sequence \in Nat \ {0}
  BY CapacityAssumption DEF IInv, TypeOK
<1>2. TypeOK'
  BY <1>1 DEF IInv, TypeOK, subscribe, busVars, Phases
<1>3. RunInv(s)'
  BY DEF RunInv, subscribe, IInv, TypeOK
<1>4. SessionInv(s)'
  BY <1>1 DEF SessionInv, subscribe, IInv, TypeOK, busVars
<1>. QED
  BY <1>2, <1>3, <1>4, SessionStepIInv, Zenon DEF subscribe, IInv, TypeOK

(* Where resume_after serves the cursor, it serves every event after it.   *)
LEMMA ResumeIsComplete ==
    ASSUME IInv, NEW s \in Sessions, Resumable(after[s])
    PROVE  /\ after[s] <= LastSequence
           /\ \A m \in (after[s] + 1)..LastSequence : m \in replay
<1>1. next_sequence \in Nat /\ after[s] \in Nat /\ replay \in SUBSET Nat
  BY SessionFacts, CapacityAssumption DEF IInv, TypeOK
<1>2. CASE after[s] = LastSequence
  BY <1>1, <1>2 DEF LastSequence
<1>3. CASE after[s] < LastSequence /\ replay # {} /\ after[s] + 1 >= Min(replay)
  <2>1. Min(replay) \in replay
    BY <1>1, <1>3, MinIsLeast
  <2>2. PICK k \in replay : after[s] + 1 >= k
    BY <1>3, <2>1
  <2>3. \A m \in k..LastSequence : m \in replay
    BY <2>2 DEF IInv, Window
  <2>. QED
    BY <1>1, <1>3, <2>2, <2>3 DEF LastSequence
<1>. QED
  BY <1>2, <1>3 DEF Resumable

LEMMA ResumeIInv ==
    ASSUME IInv, NEW s \in Sessions, resume_messages(s)
    PROVE  IInv'
<1>. /\ next_sequence \in Nat /\ next_sequence >= 1
     /\ after[s] \in Nat /\ last_sent[s] \in Nat
     /\ receiver[s] \in Nat /\ receiver[s] >= 1
     /\ backlog[s] \in SUBSET Nat /\ delivered[s] \in Seq(Nat)
     /\ RunInv(s) /\ SessionInv(s)
  BY SessionFacts, Zenon
<1>1. UNCHANGED busVars
  BY DEF resume_messages
<1>2. CASE Resumable(after[s])
  <2>1. /\ phase' = [phase EXCEPT ![s] = "replaying"]
        /\ backlog' = [backlog EXCEPT ![s] = ResumeEvents(after[s])]
        /\ UNCHANGED <<after, receiver, last_sent, delivered, resynced>>
    BY <1>2 DEF resume_messages
  <2>2. TypeOK'
    BY <1>1, <2>1, Zenon DEF IInv, TypeOK, ResumeEvents, Phases, busVars
  <2>3. RunInv(s)'
    BY <2>1 DEF RunInv
  <2>4. /\ last_sent[s] = after[s]
        /\ last_sent'[s] = last_sent[s]
        /\ receiver'[s] = receiver[s]
        /\ after'[s] = after[s]
        /\ phase'[s] = "replaying"
        /\ backlog'[s] = ResumeEvents(after[s])
    BY <2>1 DEF SessionInv, IInv, TypeOK, resume_messages
  <2>5. /\ after[s] <= LastSequence
        /\ \A m \in (after[s] + 1)..LastSequence : m \in ResumeEvents(after[s])
    BY <1>2, ResumeIsComplete DEF ResumeEvents, LastSequence
  <2>6. \A n \in ResumeEvents(after[s]) : n \in Nat /\ after[s] < n /\ n <= LastSequence
    <3>1. replay \subseteq 1..LastSequence
      BY Zenon DEF IInv, Window
    <3>. QED
      BY <3>1 DEF ResumeEvents, LastSequence
  <2>7. LastSequence' = LastSequence /\ next_sequence' = next_sequence /\ LastSequence = next_sequence - 1
    BY <1>1 DEF LastSequence, busVars
  <2>8. receiver[s] <= next_sequence /\ after[s] <= last_sent[s]
    BY DEF SessionInv
  <2>9. SessionInv(s)'
    <3>. HIDE DEF LastSequence, ResumeEvents
    <3>. QED  BY <2>4, <2>5, <2>6, <2>7, <2>8 DEF SessionInv
  <2>. QED
    BY <1>1, <2>1, <2>2, <2>3, <2>9, SessionStepIInv, Zenon DEF IInv, TypeOK
<1>3. CASE ~Resumable(after[s])
  <2>1. /\ phase' = [phase EXCEPT ![s] = "closed"]
        /\ resynced' = [resynced EXCEPT ![s] = TRUE]
        /\ UNCHANGED <<after, receiver, last_sent, delivered, backlog>>
    BY <1>3 DEF resume_messages
  <2>2. TypeOK'
    BY <1>1, <2>1 DEF IInv, TypeOK, Phases, busVars
  <2>3. RunInv(s)'
    BY <2>1 DEF RunInv
  <2>4. SessionInv(s)'
    BY <1>1, <2>1 DEF SessionInv, IInv, TypeOK, busVars
  <2>. QED
    BY <1>1, <2>1, <2>2, <2>3, <2>4, SessionStepIInv, Zenon DEF IInv, TypeOK
<1>. QED
  BY <1>2, <1>3

(* The least event of the backlog is the successor of the last one sent.   *)
LEMMA ReplaySendsSuccessor ==
    ASSUME IInv, NEW s \in Sessions, send_replay(s)
    PROVE  /\ Min(backlog[s]) \in backlog[s] /\ \A y \in backlog[s] : Min(backlog[s]) <= y
           /\ Min(backlog[s]) = last_sent[s] + 1
           /\ Min(backlog[s]) < next_sequence
<1>. /\ next_sequence \in Nat /\ last_sent[s] \in Nat
     /\ backlog[s] \in SUBSET Nat /\ SessionInv(s)
  BY SessionFacts, Zenon
<1>. DEFINE n == Min(backlog[s])
<1>1. n \in backlog[s] /\ \A y \in backlog[s] : n <= y
  BY MinIsLeast DEF send_replay
<1>. HIDE DEF n
<1>2. n \in Nat /\ last_sent[s] < n /\ n <= LastSequence
  BY <1>1 DEF SessionInv, send_replay
<1>3. last_sent[s] + 1 \in backlog[s]
  BY <1>1, <1>2 DEF SessionInv, send_replay
<1>4. n = last_sent[s] + 1 /\ n < next_sequence
  BY <1>1, <1>2, <1>3 DEF LastSequence
<1>. QED
  BY <1>1, <1>4, Zenon DEF n

LEMMA SendReplayIInv ==
    ASSUME IInv, NEW s \in Sessions, send_replay(s)
    PROVE  IInv'
<1>. /\ next_sequence \in Nat /\ next_sequence >= 1
     /\ after[s] \in Nat /\ last_sent[s] \in Nat
     /\ receiver[s] \in Nat /\ receiver[s] >= 1
     /\ backlog[s] \in SUBSET Nat /\ delivered[s] \in Seq(Nat)
     /\ RunInv(s) /\ SessionInv(s)
  BY SessionFacts, Zenon
<1>1. UNCHANGED <<busVars, phase, after, receiver, resynced>> /\ phase[s] = "replaying"
  BY DEF send_replay
<1>2. PICK n : /\ n = Min(backlog[s])
               /\ backlog' = [backlog EXCEPT ![s] = @ \ {n}]
               /\ last_sent' = [last_sent EXCEPT ![s] = n]
               /\ delivered' = [delivered EXCEPT ![s] = Append(@, n)]
  BY Zenon DEF send_replay
<1>3. n \in backlog[s] /\ \A y \in backlog[s] : n <= y
  BY <1>2, ReplaySendsSuccessor, Zenon
<1>4. n = last_sent[s] + 1
  BY <1>2, ReplaySendsSuccessor, Zenon
<1>5. /\ Append(delivered[s], n) \in Seq(Nat)
      /\ Len(Append(delivered[s], n)) = n - after[s]
      /\ \A i \in 1..Len(Append(delivered[s], n)) : Append(delivered[s], n)[i] = after[s] + i
  <2>1. /\ delivered[s] \in Seq(Nat) /\ after[s] \in Nat /\ last_sent[s] \in Nat
        /\ Len(delivered[s]) = last_sent[s] - after[s]
        /\ \A i \in 1..Len(delivered[s]) : delivered[s][i] = after[s] + i
    BY Zenon DEF RunInv
  <2>2. /\ Append(delivered[s], last_sent[s] + 1) \in Seq(Nat)
        /\ Len(Append(delivered[s], last_sent[s] + 1)) = (last_sent[s] + 1) - after[s]
        /\ \A i \in 1..Len(Append(delivered[s], last_sent[s] + 1)) :
                Append(delivered[s], last_sent[s] + 1)[i] = after[s] + i
    BY <2>1, AppendSuccessor, Zenon
  <2>. QED
    BY <1>4, <2>2, Zenon
<1>6. TypeOK'
  <2>1. backlog' \in [Sessions -> SUBSET (1..MaxSequence)]
    BY <1>2 DEF IInv, TypeOK
  <2>2. last_sent' \in [Sessions -> Nat]
    BY <1>2, <1>4 DEF IInv, TypeOK
  <2>3. delivered' \in [Sessions -> Seq(Nat)]
    BY <1>2, <1>5, Zenon DEF IInv, TypeOK
  <2>. QED
    BY <1>1, <2>1, <2>2, <2>3 DEF IInv, TypeOK, busVars
<1>7. /\ backlog'[s] = backlog[s] \ {n} /\ last_sent'[s] = n
      /\ delivered'[s] = Append(delivered[s], n)
      /\ phase'[s] = phase[s] /\ after'[s] = after[s] /\ receiver'[s] = receiver[s]
      /\ next_sequence' = next_sequence
  BY <1>1, <1>2 DEF IInv, TypeOK, busVars
<1>8. RunInv(s)'
  BY <1>5, <1>7, Zenon DEF RunInv
<1>9. SessionInv(s)'
  <2>1. /\ after[s] <= n
        /\ receiver[s] <= next_sequence
        /\ n <= LastSequence
    BY <1>1, <1>3, <1>4 DEF SessionInv
  <2>2. \A m \in backlog[s] \ {n} : n < m /\ m <= LastSequence
    BY <1>1, <1>3, <1>4 DEF SessionInv
  <2>3. \A m \in backlog[s] \ {n} : \A k \in (n + 1)..m : k \in backlog[s] \ {n}
    BY <1>1, <1>3, <1>4 DEF SessionInv
  <2>4. \A k \in (n + 1)..(receiver[s] - 1) : k \in backlog[s] \ {n}
    BY <1>1, <1>3, <1>4 DEF SessionInv
  <2>. QED
    BY <1>1, <1>7, <2>1, <2>2, <2>3, <2>4, Zenon DEF SessionInv, LastSequence
<1>. QED
  BY <1>1, <1>2, <1>6, <1>8, <1>9, SessionStepIInv, Zenon DEF IInv, TypeOK

LEMMA GoLiveIInv ==
    ASSUME IInv, NEW s \in Sessions, go_live(s)
    PROVE  IInv'
<1>. /\ next_sequence \in Nat /\ next_sequence >= 1
     /\ after[s] \in Nat /\ last_sent[s] \in Nat
     /\ receiver[s] \in Nat /\ receiver[s] >= 1
     /\ backlog[s] \in SUBSET Nat /\ delivered[s] \in Seq(Nat)
     /\ RunInv(s) /\ SessionInv(s)
  BY SessionFacts, Zenon
<1>1. TypeOK'
  BY DEF go_live, IInv, TypeOK, Phases, busVars
<1>2. RunInv(s)'
  BY Zenon DEF go_live, RunInv
<1>3. SessionInv(s)'
  <2>1. receiver[s] <= last_sent[s] + 1
    <3>1. \A m \in (last_sent[s] + 1)..(receiver[s] - 1) : FALSE
      BY DEF go_live, SessionInv
    <3>2. last_sent[s] + 1 <= receiver[s] - 1 => last_sent[s] + 1 \in (last_sent[s] + 1)..(receiver[s] - 1)
      OBVIOUS
    <3>. QED
      BY <3>1, <3>2
  <2>. QED
    BY <2>1 DEF go_live, SessionInv, IInv, TypeOK, busVars, LastSequence
<1>. QED
  BY <1>1, <1>2, <1>3, SessionStepIInv, Zenon DEF go_live, IInv, TypeOK

LEMMA ReceiveDuplicateIInv ==
    ASSUME IInv, NEW s \in Sessions, receive_duplicate(s)
    PROVE  IInv'
<1>. /\ next_sequence \in Nat /\ next_sequence >= 1
     /\ after[s] \in Nat /\ last_sent[s] \in Nat
     /\ receiver[s] \in Nat /\ receiver[s] >= 1
     /\ backlog[s] \in SUBSET Nat /\ delivered[s] \in Seq(Nat)
     /\ RunInv(s) /\ SessionInv(s)
  BY SessionFacts, Zenon
<1>1. TypeOK'
  BY DEF receive_duplicate, IInv, TypeOK, busVars
<1>2. RunInv(s)'
  BY Zenon DEF receive_duplicate, RunInv
<1>3. SessionInv(s)'
  <2>1. /\ receiver'[s] = receiver[s] + 1 /\ last_sent'[s] = last_sent[s] /\ phase'[s] = "live"
        /\ after'[s] = after[s] /\ next_sequence' = next_sequence
        /\ receiver[s] < next_sequence /\ receiver[s] <= last_sent[s] /\ phase[s] = "live"
    BY DEF receive_duplicate, IInv, TypeOK, busVars
  <2>. QED
    BY <2>1 DEF SessionInv, LastSequence
<1>. QED
  BY <1>1, <1>2, <1>3, SessionStepIInv, Zenon DEF receive_duplicate, IInv, TypeOK

LEMMA ReceiveEventIInv ==
    ASSUME IInv, NEW s \in Sessions, receive_event(s)
    PROVE  IInv'
<1>. /\ next_sequence \in Nat /\ next_sequence >= 1
     /\ after[s] \in Nat /\ last_sent[s] \in Nat
     /\ receiver[s] \in Nat /\ receiver[s] >= 1
     /\ backlog[s] \in SUBSET Nat /\ delivered[s] \in Seq(Nat)
     /\ RunInv(s) /\ SessionInv(s)
  BY SessionFacts, Zenon
<1>. DEFINE n == last_sent[s] + 1
<1>1. /\ Append(delivered[s], n) \in Seq(Nat)
      /\ Len(Append(delivered[s], n)) = n - after[s]
      /\ \A i \in 1..Len(Append(delivered[s], n)) : Append(delivered[s], n)[i] = after[s] + i
  BY AppendSuccessor, Zenon DEF RunInv
<1>2. /\ receiver[s] = n /\ n < next_sequence /\ phase[s] = "live"
      /\ receiver' = [receiver EXCEPT ![s] = n + 1]
      /\ last_sent' = [last_sent EXCEPT ![s] = n]
      /\ delivered' = [delivered EXCEPT ![s] = Append(@, n)]
      /\ UNCHANGED <<busVars, phase, after, backlog, resynced>>
  BY DEF receive_event
<1>. n \in Nat
  OBVIOUS
<1>3. n = last_sent[s] + 1
  OBVIOUS
<1>. HIDE DEF n
<1>4. TypeOK'
  <2>1. delivered' \in [Sessions -> Seq(Nat)]
    BY <1>1, <1>2, Zenon DEF IInv, TypeOK
  <2>2. receiver' \in [Sessions -> Nat \ {0}] /\ last_sent' \in [Sessions -> Nat]
    BY <1>2 DEF IInv, TypeOK
  <2>. QED
    BY <1>2, <2>1, <2>2 DEF IInv, TypeOK, busVars
<1>5. RunInv(s)'
  BY <1>1, <1>2, Zenon DEF RunInv, IInv, TypeOK
<1>6. SessionInv(s)'
  <2>1. /\ receiver'[s] = n + 1 /\ last_sent'[s] = n /\ phase'[s] = "live"
        /\ after'[s] = after[s] /\ next_sequence' = next_sequence
    BY <1>2 DEF IInv, TypeOK, busVars
  <2>2. after[s] <= n /\ n + 1 <= next_sequence /\ n <= next_sequence - 1
    BY <1>2, <1>3 DEF SessionInv
  <2>. QED
    BY <2>1, <2>2 DEF SessionInv, LastSequence
<1>. QED
  BY <1>2, <1>4, <1>5, <1>6, SessionStepIInv, Zenon DEF IInv, TypeOK

LEMMA CloseIInv ==
    ASSUME IInv, NEW s \in Sessions, receive_resync(s) \/ disconnect(s)
    PROVE  IInv'
<1>. /\ next_sequence \in Nat /\ next_sequence >= 1
     /\ after[s] \in Nat /\ last_sent[s] \in Nat
     /\ receiver[s] \in Nat /\ receiver[s] >= 1
     /\ backlog[s] \in SUBSET Nat /\ delivered[s] \in Seq(Nat)
     /\ RunInv(s) /\ SessionInv(s)
  BY SessionFacts, Zenon
<1>1. TypeOK'
  <2>1. CASE receive_resync(s)
    BY <2>1 DEF receive_resync, IInv, TypeOK, Phases, busVars
  <2>2. CASE disconnect(s)
    BY <2>2 DEF disconnect, IInv, TypeOK, Phases, busVars
  <2>. QED
    BY <2>1, <2>2
<1>2. RunInv(s)'
  BY DEF receive_resync, disconnect, RunInv
<1>3. SessionInv(s)'
  <2>1. /\ phase'[s] = "closed" /\ receiver'[s] = receiver[s] /\ last_sent'[s] = last_sent[s]
        /\ after'[s] = after[s] /\ next_sequence' = next_sequence
    BY DEF receive_resync, disconnect, IInv, TypeOK, busVars
  <2>. QED
    BY <2>1 DEF SessionInv
<1>. QED
  BY <1>1, <1>2, <1>3, SessionStepIInv, Zenon DEF receive_resync, disconnect, IInv, TypeOK

-----------------------------------------------------------------------------
LEMMA NextIInv == IInv /\ [Next]_vars => IInv'
<1>. SUFFICES ASSUME IInv, [Next]_vars PROVE IInv'
  OBVIOUS
<1>1. CASE publish
  BY <1>1, PublishIInv
<1>2. ASSUME NEW s \in Sessions, NEW sequence \in 0..(MaxSequence + 1), subscribe(s, sequence)
      PROVE  IInv'
  BY <1>2, SubscribeIInv, CapacityAssumption
<1>3. ASSUME NEW s \in Sessions, serve_step(s) PROVE IInv'
  BY <1>3, ResumeIInv, SendReplayIInv, GoLiveIInv, ReceiveDuplicateIInv,
     ReceiveEventIInv, CloseIInv DEF serve_step
<1>4. ASSUME NEW s \in Sessions, disconnect(s) PROVE IInv'
  BY <1>4, CloseIInv
<1>5. CASE UNCHANGED vars
  BY <1>5 DEF vars, busVars, sessionVars, IInv, TypeOK, Window, GapFree, SessionInv, LastSequence
<1>. QED
  BY <1>1, <1>2, <1>3, <1>4, <1>5 DEF Next

LEMMA Invariance == Spec => []IInv
<1>. QED
  BY InitIInv, NextIInv, PTL DEF Spec

(* Type correctness of the bus and its sessions.                           *)
THEOREM TypeCorrect == Spec => []TypeOK
<1>1. IInv => TypeOK
  BY DEF IInv
<1>. QED
  BY <1>1, Invariance, PTL

(* ws.rs serve_socket: for any number of sessions, any replay and channel  *)
(* capacity and any interleaving with publishers, what a session sends is  *)
(* the gap-free, duplicate-free run of events after the client's cursor.   *)
THEOREM SessionsAreGapFree == Spec => []GapFree
<1>1. IInv => GapFree
  BY DEF IInv
<1>. QED
  BY <1>1, Invariance, PTL

(* ws.rs:132: the gap test of a live session can never succeed.            *)
THEOREM SubscribeBeforeReplayLeavesNoHole == Spec => []NoHoleBehindReplay
<1>1. IInv => NoHoleBehindReplay
  BY DEF IInv, SessionInv, NoHoleBehindReplay
<1>. QED
  BY <1>1, Invariance, PTL

-----------------------------------------------------------------------------
(* Who is replayed and who is resynchronised.                              *)

(* The window is full: it holds the newest ReplayCapacity events, or all   *)
(* of them while there are fewer.                                          *)
Oldest == IF LastSequence > ReplayCapacity THEN next_sequence - ReplayCapacity ELSE 1
FullWindow == replay = Oldest..LastSequence

LEMMA PublishKeepsFull ==
    ASSUME TypeOK, FullWindow, publish
    PROVE  FullWindow'
<1>. DEFINE grown == replay \cup {next_sequence}
<1>1. /\ next_sequence \in Nat /\ 1 <= next_sequence /\ next_sequence' = next_sequence + 1
      /\ ReplayCapacity \in Nat /\ 1 <= ReplayCapacity
  BY CapacityAssumption DEF TypeOK, publish
<1>2. Oldest \in Nat /\ 1 <= Oldest /\ Oldest <= next_sequence
  BY <1>1 DEF Oldest, LastSequence
<1>3. grown = Oldest..next_sequence
  BY <1>1, <1>2 DEF FullWindow, LastSequence
<1>4. Cardinality(grown) = next_sequence - Oldest + 1
  <2>1. Cardinality(Oldest..next_sequence)
          = IF Oldest > next_sequence THEN 0 ELSE next_sequence - Oldest + 1
    BY <1>1, <1>2, FS_Interval
  <2>2. ~(Oldest > next_sequence)
    BY <1>1, <1>2
  <2>. QED
    BY <1>3, <2>1, <2>2, Zenon
<1>5. Min(grown) = Oldest
  <2>1. grown \in SUBSET Nat /\ grown # {} /\ Oldest \in grown
    BY <1>1, <1>2, <1>3
  <2>2. Min(grown) \in grown /\ \A y \in grown : Min(grown) <= y
    BY <2>1, MinIsLeast
  <2>. HIDE DEF grown
  <2>3. Min(grown) <= Oldest
    BY <2>1, <2>2, Zenon
  <2>4. Min(grown) \in Nat /\ Oldest <= Min(grown)
    BY <1>1, <1>2, <1>3, <2>2
  <2>. QED
    BY <1>2, <2>3, <2>4
<1>6. replay' = IF Cardinality(grown) > ReplayCapacity THEN grown \ {Min(grown)} ELSE grown
  BY Zenon DEF publish, PushReplay
<1>. HIDE DEF grown
<1>7. CASE LastSequence >= ReplayCapacity
  <2>1. Oldest = next_sequence - ReplayCapacity
    BY <1>1, <1>7 DEF Oldest, LastSequence
  <2>2. replay' = grown \ {Oldest}
    BY <1>1, <1>2, <1>4, <1>5, <1>6, <2>1
  <2>3. replay' = (Oldest + 1)..next_sequence
    BY <1>1, <1>2, <1>3, <2>2
  <2>4. Oldest' = next_sequence + 1 - ReplayCapacity
    BY <1>1, <1>7 DEF Oldest, LastSequence
  <2>. QED
    BY <1>1, <2>1, <2>3, <2>4 DEF FullWindow, LastSequence
<1>8. CASE LastSequence < ReplayCapacity
  <2>1. Oldest = 1 /\ Oldest' = 1
    BY <1>1, <1>8 DEF Oldest, LastSequence
  <2>2. replay' = grown
    BY <1>1, <1>4, <1>6, <1>8, <2>1 DEF LastSequence
  <2>. QED
    BY <1>1, <1>3, <2>1, <2>2 DEF FullWindow, LastSequence
<1>. QED
  BY <1>1, <1>7, <1>8 DEF LastSequence

LEMMA FullInvariance == Spec => []FullWindow
<1>1. Init => FullWindow
  BY CapacityAssumption DEF Init, InitBus, FullWindow, Oldest, LastSequence
<1>2. TypeOK /\ FullWindow /\ [Next]_vars => FullWindow'
  <2>. SUFFICES ASSUME TypeOK, FullWindow, [Next]_vars PROVE FullWindow'
    OBVIOUS
  <2>1. CASE publish
    BY <2>1, PublishKeepsFull
  <2>2. CASE UNCHANGED busVars
    BY <2>2 DEF busVars, FullWindow, Oldest, LastSequence
  <2>3. publish \/ UNCHANGED busVars
    BY Zenon DEF Next, vars, busVars, subscribe, serve_step, resume_messages, send_replay, go_live,
                 receive_duplicate, receive_event, receive_resync, disconnect
  <2>. QED
    BY <2>1, <2>2, <2>3
<1>. QED
  BY <1>1, <1>2, Invariance, PTL DEF Spec, IInv

(* With a full window resume_after answers by distance alone.              *)
LEMMA ResumableByDistance ==
    ASSUME TypeOK, FullWindow, NEW a \in Nat
    PROVE  Resumable(a) <=> a \in (LastSequence - ReplayCapacity)..LastSequence
<1>1. /\ next_sequence \in Nat /\ 1 <= next_sequence
      /\ ReplayCapacity \in Nat /\ 1 <= ReplayCapacity
  BY CapacityAssumption DEF TypeOK
<1>2. CASE LastSequence = 0
  BY <1>1, <1>2 DEF Resumable, LastSequence
<1>3. CASE LastSequence # 0
  <2>1. Oldest \in Nat /\ 1 <= Oldest /\ Oldest <= LastSequence
    BY <1>1, <1>3 DEF Oldest, LastSequence
  <2>2. replay # {} /\ replay \in SUBSET Nat /\ Oldest \in replay
    BY <1>1, <2>1 DEF FullWindow, LastSequence
  <2>3. Min(replay) \in replay /\ \A y \in replay : Min(replay) <= y
    BY <2>2, MinIsLeast
  <2>4. Min(replay) = Oldest
    BY <1>1, <2>1, <2>2, <2>3 DEF FullWindow, LastSequence
  <2>. QED
    BY <1>1, <1>3, <2>1, <2>2, <2>4 DEF Resumable, Oldest, LastSequence
<1>. QED
  BY <1>2, <1>3

(* lib.rs:62-97: a client at most ReplayCapacity events behind is replayed *)
(* them and every other one is told to resynchronise, for any capacities   *)
(* and any number of sessions.                                             *)
THEOREM ReplayReachesCapacity == Spec => ResumedIffWithinCapacity
<1>. DEFINE Step ==
        \A s \in Sessions :
            phase[s] = "subscribed" /\ phase'[s] # "subscribed" =>
                (phase'[s] = "replaying")
                    <=> after[s] \in (LastSequence - ReplayCapacity)..LastSequence
<1>1. TypeOK /\ FullWindow /\ [Next]_vars => Step \/ UNCHANGED vars
  <2>. SUFFICES ASSUME TypeOK, FullWindow, [Next]_vars, NEW s \in Sessions,
                       phase[s] = "subscribed", phase'[s] # "subscribed"
                PROVE  (phase'[s] = "replaying")
                           <=> after[s] \in (LastSequence - ReplayCapacity)..LastSequence
    BY Zenon
  <2>1. resume_messages(s)
    <3>1. s \in DOMAIN phase
      BY DEF TypeOK
    <3>2. phase' # phase
      BY Zenon
    <3>3. PICK t \in Sessions : (\E q \in 0..(MaxSequence + 1) : subscribe(t, q)) \/ serve_step(t) \/ disconnect(t)
      BY <3>2, Zenon DEF Next, vars, publish, sessionVars
    <3>4. t = s
      BY <3>1, <3>3 DEF subscribe, serve_step, resume_messages, send_replay, go_live,
                        receive_duplicate, receive_event, receive_resync, disconnect
    <3>. QED
      BY <3>3, <3>4 DEF subscribe, serve_step, send_replay, go_live, receive_duplicate,
                        receive_event, receive_resync, disconnect
  <2>2. after[s] \in Nat
    BY DEF TypeOK
  <2>3. Resumable(after[s]) <=> after[s] \in (LastSequence - ReplayCapacity)..LastSequence
    BY <2>2, ResumableByDistance
  <2>4. (phase'[s] = "replaying") <=> Resumable(after[s])
    BY <2>1 DEF resume_messages, TypeOK
  <2>. QED
    BY <2>3, <2>4, Zenon
<1>2. TypeOK /\ FullWindow /\ [Next]_vars => [Step]_vars
  BY <1>1
<1>. QED
  BY <1>2, Invariance, FullInvariance, PTL DEF Spec, IInv, ResumedIffWithinCapacity

-----------------------------------------------------------------------------
(* The refinement: phases map to an open or closed stream, and what the    *)
(* session has sent is what the client has received.                       *)
opened == [s \in Sessions |-> phase[s] # "closed"]

(* A step of one session that keeps it open or closed keeps the map.       *)
LEMMA OpenUnchanged ==
    ASSUME TypeOK, TypeOK', NEW s \in Sessions, NEW p \in Phases,
           phase' = [phase EXCEPT ![s] = p], (p # "closed") = (phase[s] # "closed")
    PROVE  opened' = opened
BY Zenon DEF opened, TypeOK

LEMMA OpenSet ==
    ASSUME TypeOK, NEW s \in Sessions, NEW p \in Phases, phase' = [phase EXCEPT ![s] = p]
    PROVE  opened' = [opened EXCEPT ![s] = (p # "closed")]
BY Zenon DEF opened, TypeOK

(* Sending the successor of the last event sent is a delivery.             *)
LEMMA SendIsDeliver ==
    ASSUME IInv, NEW s \in Sessions, phase[s] # "closed", last_sent[s] + 1 < next_sequence,
           delivered' = [delivered EXCEPT ![s] = Append(@, last_sent[s] + 1)],
           UNCHANGED <<next_sequence, phase, after, resynced>>
    PROVE  Stream!Deliver(s)
<1>1. after[s] + Len(delivered[s]) + 1 = last_sent[s] + 1
  BY SessionFacts DEF RunInv
<1>2. opened' = opened /\ opened[s]
  BY Zenon DEF opened
<1>. QED
  BY <1>1, <1>2, Zenon DEF Stream!Deliver, opened

LEMMA CloseIsEnd ==
    ASSUME IInv, NEW s \in Sessions, phase[s] # "closed",
           phase' = [phase EXCEPT ![s] = "closed"],
           resynced' = resynced \/ resynced' = [resynced EXCEPT ![s] = TRUE],
           UNCHANGED <<next_sequence, after, delivered>>
    PROVE  Stream!End(s)
<1>1. "closed" \in Phases /\ TypeOK
  BY DEF Phases, IInv
<1>2. opened' = [opened EXCEPT ![s] = ("closed" # "closed")]
  BY <1>1, OpenSet, Zenon
<1>3. opened' = [opened EXCEPT ![s] = FALSE] /\ opened[s]
  BY <1>2, Zenon DEF opened
<1>. QED
  BY <1>3, Zenon DEF Stream!End, opened

(* One step of the bus or of a session is one step of the stream, or none. *)
LEMMA StepRefines == IInv /\ IInv' /\ [Next]_vars => [Stream!Next]_(Stream!vars)
<1>. SUFFICES ASSUME IInv, IInv', [Next]_vars
     PROVE  Stream!Next \/ (UNCHANGED <<next_sequence, opened, after, delivered, resynced>>)
  BY DEF Stream!vars, opened
<1>. TypeOK /\ TypeOK'
  BY DEF IInv
<1>1. CASE publish
  <2>1. UNCHANGED <<opened, after, delivered, resynced>>
    BY <1>1 DEF publish, sessionVars, opened
  <2>. QED
    BY <1>1, <2>1, Zenon DEF publish, Stream!Next, Stream!Publish, Stream!sessionVars, opened
<1>2. ASSUME NEW s \in Sessions, NEW sequence \in 0..(MaxSequence + 1), subscribe(s, sequence)
      PROVE  Stream!Connect(s)
  <2>1. "subscribed" \in Phases
    BY DEF Phases
  <2>2. opened' = [opened EXCEPT ![s] = ("subscribed" # "closed")]
    BY <1>2, <2>1, OpenSet, Zenon DEF subscribe
  <2>3. opened' = [opened EXCEPT ![s] = TRUE] /\ ~opened[s]
    BY <1>2, <2>2, Zenon DEF subscribe, opened
  <2>. QED
    BY <1>2, <2>3, Zenon DEF subscribe, busVars, Stream!Connect, opened
<1>3. ASSUME NEW s \in Sessions, serve_step(s)
      PROVE  Stream!Deliver(s) \/ Stream!End(s)
             \/ UNCHANGED <<next_sequence, opened, after, delivered, resynced>>
  <2>1. CASE resume_messages(s)
    <3>1. CASE Resumable(after[s])
      <4>1. "replaying" \in Phases /\ phase' = [phase EXCEPT ![s] = "replaying"]
            /\ phase[s] = "subscribed" /\ UNCHANGED <<next_sequence, after, delivered, resynced>>
        BY <2>1, <3>1 DEF resume_messages, busVars, Phases
      <4>2. opened' = opened
        BY <4>1, OpenUnchanged, Zenon
      <4>. QED
        BY <4>1, <4>2
    <3>2. CASE ~Resumable(after[s])
      BY <2>1, <3>2, CloseIsEnd, Zenon DEF resume_messages, busVars
    <3>. QED
      BY <3>1, <3>2
  <2>2. CASE send_replay(s)
    <3>1. PICK n : /\ n = Min(backlog[s])
                   /\ delivered' = [delivered EXCEPT ![s] = Append(@, n)]
      BY <2>2, Zenon DEF send_replay
    <3>2. n = last_sent[s] + 1 /\ n < next_sequence
      BY <2>2, <3>1, ReplaySendsSuccessor
    <3>. QED
      BY <2>2, <3>1, <3>2, SendIsDeliver, Zenon DEF send_replay, busVars
  <2>3. CASE go_live(s)
    <3>1. "live" \in Phases /\ phase' = [phase EXCEPT ![s] = "live"]
          /\ phase[s] = "replaying" /\ UNCHANGED <<next_sequence, after, delivered, resynced>>
      BY <2>3 DEF go_live, busVars, Phases
    <3>2. opened' = opened
      BY <3>1, OpenUnchanged, Zenon
    <3>. QED
      BY <3>1, <3>2
  <2>4. CASE receive_duplicate(s)
    BY <2>4 DEF receive_duplicate, busVars, opened
  <2>5. CASE receive_event(s)
    BY <2>5, SendIsDeliver, Zenon DEF receive_event, busVars
  <2>6. CASE receive_resync(s)
    BY <2>6, CloseIsEnd, Zenon DEF receive_resync, busVars
  <2>. QED
    BY <1>3, <2>1, <2>2, <2>3, <2>4, <2>5, <2>6, Zenon DEF serve_step
<1>4. ASSUME NEW s \in Sessions, disconnect(s) PROVE Stream!End(s)
  BY <1>4, CloseIsEnd, Zenon DEF disconnect, busVars
<1>5. CASE UNCHANGED vars
  BY <1>5 DEF vars, busVars, sessionVars, opened
<1>. QED
  BY <1>1, <1>2, <1>3, <1>4, <1>5, Zenon DEF Next, Stream!Next

(* ws.rs:88-151: replay window, broadcast channel and their overlap        *)
(* implement one stream in order, for any number of sessions and           *)
(* any capacities.                                                         *)
THEOREM SocketImplementsStream == Spec => ImplementsStream
<1>1. Init => Stream!Init
  BY Zenon DEF Init, InitBus, Stream!Init
<1>. QED
  BY <1>1, Invariance, StepRefines, PTL DEF Spec, ImplementsStream, Stream!Spec
=============================================================================
