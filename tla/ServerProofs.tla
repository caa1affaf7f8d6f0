---------------------------- MODULE ServerProofs ----------------------------
(***************************************************************************)
(* What the server owes each client, for any clients and lines, any sizes  *)
(* of the pool and the caches and any number of kills: answers overtake    *)
(* only lines that are being computed, a connection is closed only when    *)
(* every line taken from it has been answered, and every answer is the     *)
(* dictionary's but for the words that a race or the file made doubtful.   *)
(*                                                                         *)
(* IInv follows a line from the poller to its answer: it is in the queue,  *)
(* or with a worker, or answered (NoneLost); per client the queue is in    *)
(* the order of the lines and behind everything already handed out         *)
(* (QueueOrder); a task ends only behind its answer (PutBehindAnswer).     *)
(* TInv adds the caches, the walk and the bounds, and VInv follows the     *)
(* answers themselves.                                                     *)
(***************************************************************************)
EXTENDS Server, SharedLemmas, FiniteSetTheorems, TLAPS

\* The lines of c that were answered; 0 is the greeting.
LinesOf(s) == {s[i].line : i \in DOMAIN s}
Answers(c) == LinesOf(sent[c])

Replies == [conn : Clients, line : Nat]

Typed ==
    /\ client \in [Clients -> {"away", "here", "closed", "lost"}]
    /\ fin \in [Clients -> BOOLEAN]
    /\ taken \in [Clients -> Nat]
    /\ mapped \subseteq Clients
    /\ pending \in Seq(Replies)
    /\ running \subseteq Replies
    /\ DOMAIN job = running

SentTyped == \E S : sent \in [Clients -> Seq(S)]

\* The map holds open connections, and lets one go behind its end of input.
Connections ==
    \A c \in Clients :
        /\ c \in mapped => client[c] = "here"
        /\ client[c] = "away" => taken[c] = 0
        /\ client[c] \in {"here", "closed"} /\ c \notin mapped => fin[c]

\* Only lines that were taken are answered, computed or queued.
OnlyTaken ==
    /\ \A c \in Clients : Answers(c) \subseteq 0..taken[c]
    /\ \A t \in running : t.line \in 1..taken[t.conn]
    /\ \A i \in 1..Len(pending) :
          pending[i].line \in 1..taken[pending[i].conn]

QueueOrder ==
    \A c \in Clients : \A i \in 1..Len(pending) : pending[i].conn = c =>
        /\ \A n \in Answers(c) : n < pending[i].line
        /\ \A u \in running : u.conn = c => u.line < pending[i].line
        /\ \A j \in 1..Len(pending) :
              j > i /\ pending[j].conn = c => pending[i].line < pending[j].line

NoneLost ==
    \A c \in Clients : client[c] # "lost" =>
        \A n \in 1..taken[c] :
            n \in Answers(c) \/ Reply(c, n) \in Pool!PendingSet \cup running

PutBehindAnswer ==
    \A c \in Clients : \A t \in running :
        t.conn = c /\ job[t].stage = "put" => t.line \in Answers(c)

ClosedAnswered ==
    \A c \in Clients :
        client[c] = "closed" => fin[c] /\ 1..taken[c] \subseteq Answers(c)

Flow ==
    Connections /\ OnlyTaken /\ QueueOrder /\ NoneLost /\ PutBehindAnswer
                /\ ClosedAnswered

IInv == Typed /\ SentTyped /\ Flow

-----------------------------------------------------------------------------
(* Answers, and what a message adds to them.                               *)

(* A line is answered when it is among the lines of the answers.           *)
LEMMA AnsweredIsAnswers ==
    ASSUME NEW c, NEW n
    PROVE  Answered(c, n) <=> n \in Answers(c)
BY DEF Answered, Answers, LinesOf

(* An appended answer adds its line.                                       *)
LEMMA AppendLines ==
    ASSUME NEW S, NEW s \in Seq(S), NEW r
    PROVE  /\ Append(s, r) \in Seq(S \cup {r})
           /\ LinesOf(Append(s, r)) = LinesOf(s) \cup {r.line}
<1> DEFINE t == Append(s, r)
           T == S \cup {r}
<1>1. s \in Seq(T)
  OBVIOUS
<1>2. /\ t \in Seq(T)
      /\ Len(s) \in Nat
      /\ DOMAIN s = 1..Len(s)
      /\ DOMAIN t = 1..(Len(s) + 1)
      /\ t[Len(s) + 1] = r
      /\ \A i \in 1..Len(s) : t[i] = s[i]
  BY <1>1
<1> HIDE DEF t, T
<1>3. LinesOf(t) = LinesOf(s) \cup {r.line}
  BY <1>2 DEF LinesOf
<1> QED BY <1>2, <1>3 DEF t, T

(* An answer sent to a client is its own and changes no other's.           *)
LEMMA SendFacts ==
    ASSUME SentTyped, NEW c \in Clients, NEW n, NEW val, Send(c, n, val)
    PROVE  /\ SentTyped'
           /\ Answers(c)' = Answers(c) \cup {n}
           /\ \A d \in Clients : d # c => Answers(d)' = Answers(d)
<1> DEFINE r == [line |-> n, val |-> val]
<1>1. PICK S : sent \in [Clients -> Seq(S)]
  BY DEF SentTyped
<1>2. sent' = [sent EXCEPT ![c] = Append(sent[c], r)]
  BY DEF Send
<1>3. r.line = n
  OBVIOUS
<1> HIDE DEF r
<1>4. /\ Append(sent[c], r) \in Seq(S \cup {r})
      /\ LinesOf(Append(sent[c], r)) = LinesOf(sent[c]) \cup {n}
  BY <1>1, <1>3, AppendLines
<1>5. sent' \in [Clients -> Seq(S \cup {r})]
  <2>1. \A d \in Clients : sent[d] \in Seq(S \cup {r})
    BY <1>1
  <2> QED BY <1>1, <1>2, <1>4, <2>1
<1>6. SentTyped'
  BY <1>5 DEF SentTyped
<1>7. sent'[c] = Append(sent[c], r) /\ \A d \in Clients : d # c => sent'[d] = sent[d]
  BY <1>1, <1>2
<1> QED BY <1>4, <1>6, <1>7 DEF Answers

(* Every task names a client and a line.                                   *)
LEMMA TasksTyped ==
    ASSUME Typed
    PROVE  /\ \A i \in 1..Len(pending) :
                 pending[i].conn \in Clients /\ pending[i].line \in Nat
           /\ \A t \in running : t.conn \in Clients /\ t.line \in Nat
<1>1. \A i \in 1..Len(pending) : pending[i] \in Replies
  BY DEF Typed
<1>2. running \subseteq Replies
  BY DEF Typed
<1> QED BY <1>1, <1>2 DEF Replies

(* The queue: appended at its end, taken from its front.                   *)
LEMMA SubmitFacts ==
    ASSUME pending \in Seq(Replies), NEW t \in Replies, Pool!Submit(t)
    PROVE  /\ pending' \in Seq(Replies)
           /\ running' = running
           /\ Len(pending) \in Nat
           /\ Len(pending') = Len(pending) + 1
           /\ pending'[Len(pending')] = t
           /\ \A i \in 1..Len(pending) : pending'[i] = pending[i]
           /\ Pool!PendingSet' = Pool!PendingSet \cup {t}
<1>1. /\ pending' \in Seq(Replies)
      /\ running' = running
      /\ Len(pending) \in Nat
      /\ Len(pending') = Len(pending) + 1
      /\ pending'[Len(pending')] = t
      /\ \A i \in 1..Len(pending) : pending'[i] = pending[i]
  BY DEF Pool!Submit
<1>2. Pool!PendingSet' \subseteq Pool!PendingSet \cup {t}
  BY <1>1 DEF Pool!PendingSet
<1>3. Pool!PendingSet \cup {t} \subseteq Pool!PendingSet'
  BY <1>1 DEF Pool!PendingSet
<1> QED BY <1>1, <1>2, <1>3

(* A task that starts moves from the head of the queue to the workers.     *)
LEMMA DispatchFacts ==
    ASSUME pending \in Seq(Replies), Pool!Dispatch
    PROVE  \E t \in Replies :
              /\ pending # <<>> /\ t = pending[1]
              /\ running' = running \cup {t}
              /\ pending' \in Seq(Replies)
              /\ Len(pending) \in Nat /\ Len(pending') = Len(pending) - 1
              /\ \A i \in 1..Len(pending') : pending'[i] = pending[i + 1]
              /\ Pool!PendingSet' \cup {t} = Pool!PendingSet
<1>1. /\ pending # <<>>
      /\ running' = running \cup {pending[1]}
      /\ pending[1] \in Replies
      /\ pending' \in Seq(Replies)
      /\ Len(pending) \in Nat /\ Len(pending) >= 1
      /\ Len(pending') = Len(pending) - 1
      /\ \A i \in 1..Len(pending') : pending'[i] = pending[i + 1]
  BY DEF Pool!Dispatch
<1>2. Pool!PendingSet' \cup {pending[1]} \subseteq Pool!PendingSet
  BY <1>1 DEF Pool!PendingSet
<1>3. ASSUME NEW i \in 1..Len(pending), i # 1
      PROVE  pending[i] \in Pool!PendingSet'
  <2>1. i - 1 \in 1..Len(pending') /\ (i - 1) + 1 = i
    BY <1>1, <1>3
  <2> QED BY <1>1, <2>1 DEF Pool!PendingSet
<1>4. Pool!PendingSet \subseteq Pool!PendingSet' \cup {pending[1]}
  BY <1>3 DEF Pool!PendingSet
<1> QED BY <1>1, <1>2, <1>4

-----------------------------------------------------------------------------
(* The inductive invariant.                                                *)

(* At first nothing was taken and nothing answered.                        *)
LEMMA IInvInit == Init => IInv
<1> SUFFICES ASSUME Init PROVE IInv
  OBVIOUS
<1>1. pending = <<>> /\ running = {}
  BY DEF Init, Pool!DInit
<1>2. Typed
  <2>1. fin \in [Clients -> BOOLEAN]
    BY DEF Init
  <2>2. DOMAIN job = {}
    BY DEF Init
  <2> QED BY <1>1, <2>1, <2>2 DEF Init, Typed
<1>3. \A c \in Clients : sent[c] = <<>> /\ Answers(c) = {}
  BY DEF Init, Answers, LinesOf
<1>4. SentTyped
  <2>1. sent \in [Clients -> Seq({})]
    BY DEF Init
  <2> QED BY <2>1 DEF SentTyped
<1>5. Flow
  BY <1>1, <1>3 DEF Init, Flow, Connections, OnlyTaken, QueueOrder, NoneLost,
                    PutBehindAnswer, ClosedAnswered
<1> QED BY <1>2, <1>4, <1>5 DEF IInv

(* Most steps leave all of it alone.                                       *)
LEMMA IInvQuiet ==
    ASSUME IInv,
           UNCHANGED <<client, fin, sent, taken, mapped, pending, running, job>>
    PROVE  IInv'
BY DEF IInv, Typed, SentTyped, Flow, Connections, OnlyTaken, QueueOrder,
       NoneLost, PutBehindAnswer, ClosedAnswered, Answers, Pool!PendingSet

(* A kill drops the tasks, but only of clients that are lost with it:      *)
(* those that are closed have all their answers.                           *)
LEMMA IInvKill ==
    ASSUME IInv, Kill
    PROVE  IInv'
<1> USE DEF IInv, Typed, Flow
<1>1. /\ pending' = <<>> /\ running' = {} /\ mapped' = {}
      /\ UNCHANGED <<fin, sent, taken>> /\ job' = <<>>
      /\ client' = [c \in Clients |->
                       IF client[c] = "here" THEN "lost" ELSE client[c]]
  BY DEF Kill
<1>2. \A c \in Clients : Answers(c)' = Answers(c)
  BY <1>1 DEF Answers
<1>3. Typed'
  <2>1. DOMAIN job' = {}
    BY <1>1
  <2> QED BY <1>1, <2>1
<1>4. SentTyped'
  BY <1>1 DEF SentTyped
<1>5. Connections'
  BY <1>1 DEF Connections
<1>6. OnlyTaken' /\ QueueOrder' /\ PutBehindAnswer'
  BY <1>1, <1>2 DEF OnlyTaken, QueueOrder, PutBehindAnswer
<1>7. ClosedAnswered'
  BY <1>1, <1>2 DEF ClosedAnswered
<1>8. NoneLost'
  BY <1>1, <1>2, SMTT(30) DEF NoneLost, ClosedAnswered, Connections
<1> QED BY <1>3, <1>4, <1>5, <1>6, <1>7, <1>8

(* The client: its end of input, and its end.                              *)
LEMMA IInvClient ==
    ASSUME IInv, NEW c \in Clients, Client(c)
    PROVE  IInv'
<1>1. CASE TypeLine(c)
  BY <1>1, IInvQuiet DEF TypeLine, process, pool
<1>2. CASE ShutdownWrite(c)
  <2> USE DEF IInv, Typed, Flow
  <2>1. /\ UNCHANGED <<client, sent, taken, mapped, pending, running, job>>
        /\ fin' = [fin EXCEPT ![c] = TRUE]
    BY <1>2 DEF ShutdownWrite, process, pool
  <2>2. fin' \in [Clients -> BOOLEAN] /\ \A d \in Clients : fin[d] => fin'[d]
    BY <2>1
  <2>3. Connections' /\ ClosedAnswered'
    BY <2>1, <2>2 DEF Connections, ClosedAnswered, Answers
  <2>4. Typed' /\ SentTyped'
    BY <2>1, <2>2 DEF SentTyped
  <2>5. OnlyTaken' /\ QueueOrder' /\ NoneLost' /\ PutBehindAnswer'
    BY <2>1 DEF OnlyTaken, QueueOrder, NoneLost, PutBehindAnswer, Answers,
                Pool!PendingSet
  <2> QED BY <2>3, <2>4, <2>5
<1>3. CASE ServerClose(c)
  <2> USE DEF IInv, Typed, Flow
  <2>1. /\ UNCHANGED <<fin, sent, taken, mapped, pending, running, job>>
        /\ client[c] = "here"
        /\ client' = [client EXCEPT ![c] = "closed"]
        /\ c \notin mapped
        /\ \A t \in Pool!PendingSet \cup running : t.conn # c
    BY <1>3 DEF ServerClose, process, pool, Held
  <2>2. fin[c] /\ 1..taken[c] \subseteq Answers(c)
    <3>1. \A n \in 1..taken[c] : Reply(c, n).conn = c
      BY DEF Reply
    <3> QED BY <2>1, <3>1 DEF Connections, NoneLost
  <2>3. Connections'
    BY <2>1, <2>2 DEF Connections
  <2>4. \A d \in Clients : Answers(d)' = Answers(d)
    BY <2>1 DEF Answers
  <2>5. ClosedAnswered'
    BY <2>1, <2>2, <2>4 DEF ClosedAnswered
  <2>6. NoneLost'
    BY <2>1, <2>4 DEF NoneLost, Pool!PendingSet
  <2> QED
    BY <2>1, <2>3, <2>5, <2>6
       DEF SentTyped, OnlyTaken, QueueOrder, PutBehindAnswer, Answers
<1> QED BY <1>1, <1>2, <1>3 DEF Client

(* The poller: a connection and its greeting.                              *)
LEMMA IInvAccept ==
    ASSUME IInv, NEW c \in Clients, HandleAccept(c)
    PROVE  IInv'
<1> USE DEF IInv, Typed, Flow
<1>1. /\ UNCHANGED <<fin, taken, pending, running, job>>
      /\ client[c] = "away"
      /\ client' = [client EXCEPT ![c] = "here"]
      /\ mapped' = mapped \cup {c}
      /\ Send(c, 0, Greeting)
  BY DEF HandleAccept, pool
<1>2. /\ SentTyped'
      /\ Answers(c)' = Answers(c) \cup {0}
      /\ \A d \in Clients : d # c => Answers(d)' = Answers(d)
  BY <1>1, SendFacts
<1>3. Typed'
  BY <1>1
<1>4. Connections'
  BY <1>1 DEF Connections
<1>5. OnlyTaken'
  BY <1>1, <1>2, SMTT(30) DEF OnlyTaken
<1>6. QueueOrder'
  <2>1. \A i \in 1..Len(pending) : 0 < pending[i].line
    BY TasksTyped DEF OnlyTaken
  <2>2. \A d \in Clients : Answers(d)' \subseteq Answers(d) \cup {0}
    BY <1>2
  <2> QED BY <1>1, <2>1, <2>2 DEF QueueOrder
<1>7. NoneLost'
  BY <1>1, <1>2 DEF NoneLost, Pool!PendingSet
<1>8. PutBehindAnswer'
  <2>1. \A d \in Clients : Answers(d) \subseteq Answers(d)'
    BY <1>2
  <2> QED BY <1>1, <2>1 DEF PutBehindAnswer
<1>9. ClosedAnswered'
  BY <1>1, <1>2 DEF ClosedAnswered
<1> QED BY <1>2, <1>3, <1>4, <1>5, <1>6, <1>7, <1>8, <1>9

(* The poller: one line becomes one task, or the connection is let go.     *)
LEMMA IInvServe ==
    ASSUME IInv, NEW c \in Clients, Serve(c)
    PROVE  IInv'
<1> USE DEF IInv, Typed, Flow
<1>1. CASE HandleMessage(c)
  <2> DEFINE n == taken[c] + 1
  <2>1. /\ UNCHANGED <<client, fin, sent, mapped, job>>
        /\ c \in mapped
        /\ taken' = [taken EXCEPT ![c] = n]
        /\ taken'[c] = n
        /\ Pool!Submit(Reply(c, n))
    BY <1>1 DEF HandleMessage
  <2>2. Reply(c, n) \in Replies
    BY DEF Reply, Replies
  <2>3. Reply(c, n).conn = c /\ Reply(c, n).line = n
    BY DEF Reply
  <2>4. /\ pending' \in Seq(Replies)
        /\ running' = running
        /\ Len(pending) \in Nat
        /\ Len(pending') = Len(pending) + 1
        /\ pending'[Len(pending')] = Reply(c, n)
        /\ \A i \in 1..Len(pending) : pending'[i] = pending[i]
        /\ Pool!PendingSet' = Pool!PendingSet \cup {Reply(c, n)}
    BY <2>1, <2>2, SubmitFacts
  <2>5. \A d \in Clients : Answers(d)' = Answers(d)
    BY <2>1 DEF Answers
  <2>6. Typed' /\ SentTyped'
    BY <2>1, <2>4 DEF SentTyped
  <2>7. Connections'
    BY <2>1 DEF Connections
  <2>8. \A i \in 1..Len(pending) :
           pending[i].conn \in Clients /\ pending[i].line \in Nat
    BY TasksTyped
  <2>9. \A t \in running : t.conn \in Clients /\ t.line \in Nat
    BY TasksTyped
  <2>10. OnlyTaken'
    <3>1. \A d \in Clients : taken[d] <= taken'[d] /\ taken'[d] \in Nat
      BY <2>1
    <3>2. \A d \in Clients : Answers(d)' \subseteq 0..taken'[d]
      BY <2>5, <3>1 DEF OnlyTaken
    <3>3. \A t \in running : t.line \in 1..taken'[t.conn]
      BY <2>9, <3>1 DEF OnlyTaken
    <3>4. \A i \in 1..Len(pending) : pending[i].line \in 1..taken'[pending[i].conn]
      BY <2>8, <3>1 DEF OnlyTaken
    <3>5. \A i \in 1..Len(pending') :
             pending'[i].line \in 1..taken'[pending'[i].conn]
      <4>1. n \in 1..taken'[c]
        BY <2>1
      <4>2. \A i \in 1..Len(pending') : i = Len(pending') \/ i \in 1..Len(pending)
        BY <2>4
      <4> QED BY <2>3, <2>4, <3>4, <4>1, <4>2
    <3> QED BY <2>4, <3>2, <3>3, <3>5 DEF OnlyTaken
  <2>11. QueueOrder'
    <3> SUFFICES ASSUME NEW d \in Clients,
                        NEW i \in 1..Len(pending'), pending'[i].conn = d
                 PROVE  /\ \A k \in Answers(d) : k < pending'[i].line
                        /\ \A u \in running : u.conn = d => u.line < pending'[i].line
                        /\ \A j \in 1..Len(pending') :
                              j > i /\ pending'[j].conn = d =>
                                 pending'[i].line < pending'[j].line
      BY <2>4, <2>5 DEF QueueOrder
    <3>1. CASE i = Len(pending')
      <4>1. d = c /\ pending'[i].line = n
        BY <2>3, <2>4, <3>1
      <4>2. /\ \A k \in Answers(c) : k < n
            /\ \A u \in running : u.conn = c => u.line < n
        BY <2>9 DEF OnlyTaken
      <4> QED BY <2>4, <3>1, <4>1, <4>2
    <3>2. CASE i # Len(pending')
      <4>1. i \in 1..Len(pending) /\ pending'[i] = pending[i]
        BY <2>4, <3>2
      <4>2. /\ \A k \in Answers(d) : k < pending[i].line
            /\ \A u \in running : u.conn = d => u.line < pending[i].line
            /\ \A j \in 1..Len(pending) :
                  j > i /\ pending[j].conn = d => pending[i].line < pending[j].line
        BY <4>1 DEF QueueOrder
      <4>3. ASSUME NEW j \in 1..Len(pending'), j > i, pending'[j].conn = d
            PROVE  pending'[i].line < pending'[j].line
        <5>1. CASE j = Len(pending')
          <6>1. d = c /\ pending'[j].line = n
            BY <2>3, <2>4, <4>3, <5>1
          <6>2. pending[i].line \in 1..taken[c]
            BY <4>1, <6>1 DEF OnlyTaken
          <6>3. pending[i].line < n
            BY <6>2
          <6> QED BY <4>1, <6>1, <6>3
        <5>2. CASE j # Len(pending')
          <6>1. j \in 1..Len(pending) /\ pending'[j] = pending[j]
            BY <2>4, <4>3, <5>2
          <6> QED BY <4>1, <4>2, <4>3, <6>1
        <5> QED BY <5>1, <5>2
      <4> QED BY <4>1, <4>2, <4>3
    <3> QED BY <3>1, <3>2
  <2>12. NoneLost'
    BY <2>1, <2>4, <2>5 DEF NoneLost
  <2>13. PutBehindAnswer' /\ ClosedAnswered'
    BY <2>1, <2>4, <2>5, <2>9 DEF PutBehindAnswer, ClosedAnswered, Connections
  <2> QED BY <2>6, <2>7, <2>10, <2>11, <2>12, <2>13
<1>2. CASE HandleClose(c)
  <2>1. /\ UNCHANGED <<client, fin, sent, taken, pending, running, job>>
        /\ fin[c]
        /\ mapped' = mapped \ {c}
    BY <1>2 DEF HandleClose, clients, pool
  <2>2. Connections' /\ Typed' /\ SentTyped'
    BY <2>1 DEF Connections, SentTyped
  <2>3. OnlyTaken' /\ QueueOrder' /\ PutBehindAnswer' /\ ClosedAnswered'
    BY <2>1 DEF OnlyTaken, QueueOrder, PutBehindAnswer, ClosedAnswered, Answers
  <2>4. NoneLost'
    BY <2>1 DEF NoneLost, Answers, Pool!PendingSet
  <2> QED BY <2>2, <2>3, <2>4
<1> QED BY <1>1, <1>2 DEF Serve

(* A worker takes the oldest line.                                         *)
LEMMA IInvStartTask ==
    ASSUME IInv, StartTask
    PROVE  IInv'
<1> USE DEF IInv, Typed, Flow
<1>1. /\ UNCHANGED <<client, fin, sent, taken, mapped>>
      /\ Pool!Dispatch
      /\ job' = [t \in running' |->
                    IF t \in running THEN job[t]
                    ELSE [stage |-> "lookup", val |-> <<>>]]
  BY DEF StartTask, clients, process
<1>2. PICK t \in Replies :
         /\ pending # <<>> /\ t = pending[1]
         /\ running' = running \cup {t}
         /\ pending' \in Seq(Replies)
         /\ Len(pending) \in Nat /\ Len(pending') = Len(pending) - 1
         /\ \A i \in 1..Len(pending') : pending'[i] = pending[i + 1]
         /\ Pool!PendingSet' \cup {t} = Pool!PendingSet
  BY <1>1, DispatchFacts
<1>3. \A c \in Clients : Answers(c)' = Answers(c)
  BY <1>1 DEF Answers
<1>4. Typed' /\ SentTyped'
  BY <1>1, <1>2 DEF SentTyped
<1>5. Connections' /\ ClosedAnswered'
  BY <1>1, <1>3 DEF Connections, ClosedAnswered
<1>6. \A i \in 1..Len(pending) :
         pending[i].conn \in Clients /\ pending[i].line \in Nat
  BY TasksTyped
<1>7. /\ 1 \in 1..Len(pending)
      /\ \A i \in 1..Len(pending') :
            i + 1 \in 1..Len(pending) /\ i + 1 > 1 /\ pending'[i] = pending[i + 1]
  BY <1>2
<1>8. OnlyTaken'
  <2>1. \A i \in 1..Len(pending') :
           pending'[i].line \in 1..taken[pending'[i].conn]
    BY <1>7 DEF OnlyTaken
  <2>2. \A u \in running' : u.line \in 1..taken[u.conn]
    BY <1>2, <1>7 DEF OnlyTaken
  <2> QED BY <1>1, <1>3, <2>1, <2>2 DEF OnlyTaken
<1>9. QueueOrder'
  <2> SUFFICES ASSUME NEW c \in Clients,
                      NEW i \in 1..Len(pending'), pending'[i].conn = c
               PROVE  /\ \A k \in Answers(c) : k < pending'[i].line
                      /\ \A u \in running' : u.conn = c => u.line < pending'[i].line
                      /\ \A j \in 1..Len(pending') :
                            j > i /\ pending'[j].conn = c =>
                               pending'[i].line < pending'[j].line
    BY <1>3 DEF QueueOrder
  <2>1. i + 1 \in 1..Len(pending) /\ i + 1 > 1 /\ pending'[i] = pending[i + 1]
    BY <1>7
  <2>2. /\ \A k \in Answers(c) : k < pending[i + 1].line
        /\ \A u \in running : u.conn = c => u.line < pending[i + 1].line
        /\ \A j \in 1..Len(pending) :
              j > i + 1 /\ pending[j].conn = c =>
                 pending[i + 1].line < pending[j].line
    BY <2>1 DEF QueueOrder
  <2>3. t.conn = c => t.line < pending[i + 1].line
    BY <1>2, <1>7, <2>1 DEF QueueOrder
  <2>4. ASSUME NEW j \in 1..Len(pending'), j > i, pending'[j].conn = c
        PROVE  pending'[i].line < pending'[j].line
    <3>1. /\ j + 1 \in 1..Len(pending) /\ j + 1 > i + 1
          /\ pending'[j] = pending[j + 1]
      BY <1>7, <2>4
    <3> QED BY <2>1, <2>2, <2>4, <3>1
  <2> QED BY <1>2, <2>1, <2>2, <2>3, <2>4
<1>10. NoneLost'
  BY <1>1, <1>2, <1>3 DEF NoneLost
<1>11. PutBehindAnswer'
  <2>1. \A u \in running' : job'[u].stage = "put" =>
           u \in running /\ job[u].stage = "put"
    BY <1>1
  <2>2. \A u \in running : u.conn \in Clients
    BY DEF Replies
  <2> QED BY <1>3, <2>1, <2>2 DEF PutBehindAnswer
<1> QED BY <1>4, <1>5, <1>8, <1>9, <1>10, <1>11

(* A worker before its answer: only the stage of its task changes.         *)
LEMMA IInvStage ==
    ASSUME IInv, NEW t \in running, NEW stage, NEW val, stage # "put",
           Step(t, stage, val),
           UNCHANGED <<client, fin, sent, taken, mapped, pending, running>>
    PROVE  IInv'
<1>1. /\ DOMAIN job' = running
      /\ \A u \in running : job'[u].stage = "put" => job[u].stage = "put"
  BY DEF Step, IInv, Typed
<1>2. PutBehindAnswer'
  BY <1>1 DEF IInv, Flow, PutBehindAnswer, Answers
<1>3. Typed' /\ SentTyped'
  BY <1>1 DEF IInv, Typed, SentTyped
<1>4. Connections' /\ OnlyTaken' /\ QueueOrder' /\ ClosedAnswered'
  BY DEF IInv, Flow, Connections, OnlyTaken, QueueOrder, ClosedAnswered,
         Answers
<1>5. NoneLost'
  BY DEF IInv, Flow, NoneLost, Answers, Pool!PendingSet
<1> QED BY <1>2, <1>3, <1>4, <1>5 DEF IInv, Flow

(* An answer is sent for a line that a worker computes.                    *)
LEMMA IInvSend ==
    ASSUME IInv, NEW t, SendAnswer(t)
    PROVE  IInv'
<1> USE DEF IInv, Typed, Flow
<1>1. /\ UNCHANGED <<client, fin, taken, mapped, pending, running>>
      /\ t \in running
      /\ Send(t.conn, t.line, job[t].val)
      /\ Step(t, "put", job[t].val)
  BY DEF SendAnswer, Stage, process, pool
<1>2. t.conn \in Clients /\ t.line \in Nat
  BY <1>1 DEF Replies
<1>3. /\ SentTyped'
      /\ Answers(t.conn)' = Answers(t.conn) \cup {t.line}
      /\ \A d \in Clients : d # t.conn => Answers(d)' = Answers(d)
  BY <1>1, <1>2, SendFacts
<1>4. /\ DOMAIN job' = running
      /\ \A u \in running : u # t => job'[u] = job[u]
  BY <1>1 DEF Step
<1>5. Typed'
  BY <1>1, <1>4
<1>6. Connections'
  BY <1>1 DEF Connections
<1>7. OnlyTaken'
  <2>1. t.line \in 0..taken[t.conn]
    BY <1>1, <1>2 DEF OnlyTaken
  <2>2. \A c \in Clients : Answers(c)' \subseteq 0..taken[c]
    <3>1. Answers(t.conn)' \subseteq 0..taken[t.conn]
      BY <1>2, <1>3, <2>1 DEF OnlyTaken
    <3>2. \A c \in Clients : c # t.conn => Answers(c)' \subseteq 0..taken[c]
      BY <1>3 DEF OnlyTaken
    <3> QED BY <3>1, <3>2
  <2> QED BY <1>1, <2>2 DEF OnlyTaken
<1>8. QueueOrder'
  <2>1. \A c \in Clients : \A i \in 1..Len(pending) : pending[i].conn = c =>
           \A k \in Answers(c)' : k < pending[i].line
    BY <1>1, <1>3, SMTT(30) DEF QueueOrder
  <2> QED BY <1>1, <2>1 DEF QueueOrder
<1>9. NoneLost'
  BY <1>1, <1>2, <1>3, SMTT(30) DEF NoneLost, Pool!PendingSet
<1>10. PutBehindAnswer'
  <2>1. \A u \in running : u.conn \in Clients
    BY DEF Replies
  <2> QED BY <1>1, <1>2, <1>3, <1>4, <2>1, SMTT(30) DEF PutBehindAnswer
<1>11. ClosedAnswered'
  BY <1>1, <1>2, <1>3, SMTT(30) DEF ClosedAnswered
<1> QED BY <1>3, <1>5, <1>6, <1>7, <1>8, <1>9, <1>10, <1>11

(* A task ends with its put, behind its answer.                            *)
LEMMA IInvPut ==
    ASSUME IInv, NEW t, PutIntoMaster(t)
    PROVE  IInv'
<1> USE DEF IInv, Typed, Flow
<1>1. /\ UNCHANGED <<client, fin, sent, taken, mapped, pending>>
      /\ t \in running /\ job[t].stage = "put"
      /\ running' = running \ {t}
      /\ job' = [u \in running' |-> job[u]]
  BY DEF PutIntoMaster, Stage, Pool!Finish, clients, process
<1>2. \A c \in Clients : Answers(c)' = Answers(c)
  BY <1>1 DEF Answers
<1>3. \A u \in running : u.conn \in Clients
  BY TasksTyped
<1>4. t.line \in Answers(t.conn)
  BY <1>1, <1>3 DEF PutBehindAnswer
<1>5. NoneLost'
  <2>1. \A c, n : Reply(c, n) = t => t.conn = c /\ t.line = n
    BY DEF Reply
  <2> QED BY <1>1, <1>2, <1>4, <2>1 DEF NoneLost, Pool!PendingSet
<1>6. PutBehindAnswer'
  BY <1>1, <1>2, <1>3 DEF PutBehindAnswer
<1>7. Typed' /\ SentTyped'
  BY <1>1 DEF SentTyped
<1>8. Connections' /\ ClosedAnswered'
  BY <1>1, <1>2 DEF Connections, ClosedAnswered
<1>9. OnlyTaken' /\ QueueOrder'
  BY <1>1 DEF OnlyTaken, QueueOrder, Answers
<1> QED BY <1>5, <1>6, <1>7, <1>8, <1>9

(* compute: of its steps the answer alone touches what a client sees.      *)
LEMMA IInvCompute ==
    ASSUME IInv, NEW t, Compute(t)
    PROVE  IInv'
<1>1. CASE Lookup(t)
  <2>1. PICK stage, val : stage # "put" /\ Step(t, stage, val)
    BY <1>1 DEF Lookup
  <2> QED BY <1>1, <2>1, IInvStage DEF Lookup, Stage, clients, process, pool
<1>2. CASE BeginQuery(t)
  BY <1>2, IInvQuiet DEF BeginQuery, clients, process, pool
<1>3. CASE EndQuery(t)
  <2>1. PICK val : Step(t, "send", val)
    BY <1>3 DEF EndQuery
  <2> QED BY <1>3, <2>1, IInvStage DEF EndQuery, Stage, clients, process, pool
<1> QED BY <1>1, <1>2, <1>3, IInvSend, IInvPut DEF Compute

(* Every step keeps IInv.                                                  *)
LEMMA IInvNext == IInv /\ [Next]_vars => IInv'
<1> SUFFICES ASSUME IInv, [Next]_vars PROVE IInv'
  OBVIOUS
<1>1. CASE Boot
  BY <1>1, IInvQuiet DEF Boot, clients, pool
<1>2. CASE Copy
  BY <1>2, IInvQuiet
     DEF Copy, BeginCopy, CopyKey, CopyVal, MapNode, NextNode, EndCopy,
         clients, process, pool
<1>3. CASE WriteToFile
  BY <1>3, IInvQuiet DEF WriteToFile, clients, process, pool
<1>4. CASE UNCHANGED vars
  BY <1>4, IInvQuiet DEF vars, clients, process, pool
<1> QED
  BY <1>1, <1>2, <1>3, <1>4, IInvKill, IInvAccept, IInvClient, IInvServe,
     IInvStartTask, IInvCompute DEF Next

(* IInv is an invariant of the server.                                     *)
LEMMA IInvAlways == Spec => []IInv
BY IInvInit, IInvNext, PTL DEF Spec

(* However the workers are scheduled, an answer overtakes only lines of    *)
(* its client that are being computed: none that still waits in the queue  *)
(* or was dropped.                                                         *)
THEOREM OvertakingIsBounded == Spec => []OvertakesOnlyRunning
<1>1. IInv => OvertakesOnlyRunning
  <2> SUFFICES ASSUME IInv, NEW c \in Clients, NEW n \in 1..taken[c],
                      Answered(c, n), client[c] # "lost",
                      NEW m \in 1..n - 1
               PROVE  Answered(c, m) \/ Reply(c, m) \in running
    BY DEF OvertakesOnlyRunning
  <2>1. taken[c] \in Nat /\ n \in Answers(c) /\ m \in 1..taken[c] /\ m < n
    BY AnsweredIsAnswers DEF IInv, Typed
  <2>2. m \in Answers(c) \/ Reply(c, m) \in Pool!PendingSet \cup running
    BY <2>1 DEF IInv, Flow, NoneLost
  <2>3. Reply(c, m) \notin Pool!PendingSet
    <3>1. Reply(c, m).conn = c /\ Reply(c, m).line = m
      BY DEF Reply
    <3>2. \A i \in 1..Len(pending) : pending[i] = Reply(c, m) => n < m
      BY <2>1, <3>1 DEF IInv, Flow, QueueOrder
    <3> QED BY <2>1, <3>2 DEF Pool!PendingSet
  <2> QED BY <2>2, <2>3, AnsweredIsAnswers
<1> QED BY <1>1, IInvAlways, PTL

(* A connection ends behind its client's end of input and behind the       *)
(* answers to all lines taken from it: the shared pointers in the tasks    *)
(* keep it open that long.                                                 *)
THEOREM CloseIsBehindAnswers == Spec => []ClosedWhenAnswered
<1>1. IInv => ClosedWhenAnswered
  BY AnsweredIsAnswers DEF IInv, Flow, ClosedAnswered, ClosedWhenAnswered
<1> QED BY <1>1, IInvAlways, PTL

-----------------------------------------------------------------------------
(* Types.  TInv is what IInv and the caches add to one another: no line is *)
(* counted twice between the client, the socket and the buffer, only tasks *)
(* of the pool query, both caches are whole, the slave but for the entries *)
(* of doubted words, and the walk stands on a node of the master, which    *)
(* has the key that was read there unless both words are doubted.          *)

Lengths ==
    /\ typed \in [Clients -> Nat]
    /\ inbound \in [Clients -> Nat]
    /\ \A c \in Clients :
          taken[c] + inbound[c] <= typed[c] /\ typed[c] <= Len(Lines[c])

Threads ==
    /\ Len(pending) <= QueueSize
    /\ IsFiniteSet(running)
    /\ Cardinality(running) <= PoolSize

Querying ==
    \A t \in met \cup querying : t \in running /\ job[t].stage = "query"

Down ==
    ~up => /\ mapped = {} /\ running = {} /\ pending = <<>>
           /\ walk = "off" /\ cursor = 0

Copies ==
    /\ Whole(master) /\ WholeBut(slave, doubted)
    /\ cursor \in 0..Len(master.list)
    /\ walk \in {"off", "copy", "val", "map", "next"}
    /\ walk \in {"val", "map", "next"} => cursor # 0
    /\ due \subseteq {"write", "copy"}
    /\ \E S : file \in Seq(S)

\* The slave ends with the node that the walk is at, whose key is still the one
\* that was read unless a put has replaced it, and both words are doubted.
AtNode ==
    walk \in {"val", "map"} =>
        /\ Len(slave.list) > 0
        /\ \E k, v : /\ slave.list[Len(slave.list)] = Node(Len(slave.list), k, v)
                     /\ Here.key = k \/ {k, Here.key} \subseteq doubted

TInv == Lengths /\ Threads /\ Querying /\ Down /\ Copies /\ AtNode

(* The node under the walk is the same if the master and the cursor are.   *)
LEMMA HereSame == UNCHANGED <<master, cursor>> => Here' = Here
BY DEF Here, NodeAt, Position

(* A step that leaves the caches and the walk alone keeps them in order.   *)
LEMMA CopiesSame ==
    ASSUME Copies, AtNode, doubted \subseteq doubted',
           UNCHANGED <<master, slave, walk, cursor, due, file>>
    PROVE  Copies' /\ AtNode'
<1>1. WholeBut(slave, doubted')
  BY MoreWords DEF Copies
<1>2. Here' = Here
  BY HereSame
<1> QED BY <1>1, <1>2 DEF Copies, AtNode

(* TaskDispatch counts with its own instance of Cardinality.               *)
LEMMA SameCardinality ==
    ASSUME NEW S
    PROVE  Pool!Cardinality(S) = Cardinality(S)
BY DEF Cardinality, Pool!Cardinality

(* At first there is nothing anywhere.                                     *)
LEMMA TInvInit == Init => TInv
<1> SUFFICES ASSUME Init PROVE TInv
  OBVIOUS
<1>1. Lengths
  <2>1. \A c \in Clients : Len(Lines[c]) \in Nat
    BY ServerAssumption
  <2> QED BY <2>1 DEF Init, Lengths
<1>2. Threads
  <2>1. pending = <<>> /\ running = {}
    BY DEF Init, Pool!DInit
  <2>2. IsFiniteSet({}) /\ Cardinality({}) = 0
    BY FS_EmptySet
  <2>3. QueueSize \in Nat /\ PoolSize \in Nat
    BY ServerAssumption
  <2> QED BY <2>1, <2>2, <2>3 DEF Threads
<1>3. Querying /\ Down
  BY DEF Init, Pool!DInit, Querying, Down
<1>4. Copies /\ AtNode
  <2>1. Len(EmptyCache.list) = 0
    BY DEF EmptyCache
  <2>2. file \in Seq({})
    BY DEF Init
  <2> QED BY <2>1, <2>2, EmptyWhole, WholeIs DEF Init, Copies, AtNode
<1> QED BY <1>1, <1>2, <1>3, <1>4 DEF TInv

(* The start reads the file into whole caches.                             *)
LEMMA TInvBoot ==
    ASSUME TInv, Boot
    PROVE  TInv'
<1>1. PICK S : file \in Seq(S)
  BY DEF TInv, Copies
<1>2. /\ UNCHANGED <<typed, inbound, taken, pending, running, met, querying,
                     job, mapped, walk, cursor, file>>
      /\ ~up /\ up' /\ due' = {"write", "copy"}
      /\ master' = ReadLines(EmptyCache, IF OpenRead(conf') THEN file ELSE <<>>)
      /\ slave' = master'
  BY DEF Boot, StartServer, clients, pool, database
<1>3. PICK lines \in Seq(S) : master' = ReadLines(EmptyCache, lines)
  <2>1. PICK lines : /\ lines = IF OpenRead(conf') THEN file ELSE <<>>
                     /\ master' = ReadLines(EmptyCache, lines)
    BY <1>2
  <2>2. <<>> \in Seq(S)
    OBVIOUS
  <2>3. lines \in Seq(S)
    BY <1>1, <2>1, <2>2
  <2> QED BY <2>1, <2>3
<1>4. Whole(master') /\ Len(master'.list) \in Nat
  <2>1. Len(EmptyCache.list) = 0 /\ Len(lines) \in Nat
    BY <1>3 DEF EmptyCache
  <2>2. /\ Whole(ReadLines(EmptyCache, lines))
        /\ Len(ReadLines(EmptyCache, lines).list) = 0 + Len(lines)
    BY <1>3, <2>1, EmptyWhole, ReadWhole
  <2> QED BY <1>3, <2>1, <2>2
<1>5. Copies' /\ AtNode'
  <2>1. cursor = 0 /\ walk = "off"
    BY <1>2 DEF TInv, Down
  <2> QED BY <1>1, <1>2, <1>4, <2>1, WholeIs DEF Copies, AtNode
<1>6. Lengths' /\ Threads' /\ Querying' /\ Down'
  BY <1>2 DEF TInv, Lengths, Threads, Querying, Down
<1> QED BY <1>5, <1>6 DEF TInv

(* A kill leaves the file and what the clients have typed.                 *)
LEMMA TInvKill ==
    ASSUME TInv, Kill
    PROVE  TInv'
<1>1. /\ UNCHANGED <<typed, inbound, taken>>
      /\ pending' = <<>> /\ running' = {} /\ met' = {} /\ querying' = {}
      /\ mapped' = {} /\ walk' = "off" /\ cursor' = 0 /\ due' = {}
      /\ master' = EmptyCache /\ slave' = EmptyCache
      /\ file' = file \/ \E n \in 0..Len(slave.list) :
                             file' = SubSeq(WriteLines(slave), 1, n)
  BY DEF Kill
<1>2. Lengths' /\ Querying' /\ Down'
  BY <1>1 DEF TInv, Lengths, Querying, Down
<1>3. Threads'
  <2>1. IsFiniteSet({}) /\ Cardinality({}) = 0
    BY FS_EmptySet
  <2>2. QueueSize \in Nat /\ PoolSize \in Nat
    BY ServerAssumption
  <2> QED BY <1>1, <2>1, <2>2 DEF Threads
<1>4. \E S : file' \in Seq(S)
  <2>1. CASE file' = file
    BY <2>1 DEF TInv, Copies
  <2>2. ASSUME NEW n \in 0..Len(slave.list),
               file' = SubSeq(WriteLines(slave), 1, n)
        PROVE  \E S : file' \in Seq(S)
    <3>1. NodesPlaced(slave)
      BY DEF TInv, Copies, WholeBut
    <3>2. PICK S : WriteLines(slave) \in Seq(S)
      BY <3>1, PlacedLines
    <3>3. Len(WriteLines(slave)) = Len(slave.list) /\ Len(slave.list) \in Nat
      BY <3>1, PlacedLines
    <3>4. \A i \in 1..n : WriteLines(slave)[i] \in S
      BY <3>2, <3>3
    <3>5. SubSeq(WriteLines(slave), 1, n) \in Seq(S)
      BY <3>2, <3>3, <3>4
    <3> QED BY <2>2, <3>5
  <2> QED BY <1>1, <2>1, <2>2
<1>5. Copies' /\ AtNode'
  <2>1. Len(EmptyCache.list) = 0
    BY DEF EmptyCache
  <2> QED BY <1>1, <1>4, <2>1, EmptyWhole, WholeIs DEF Copies, AtNode
<1> QED BY <1>2, <1>3, <1>5 DEF TInv

(* What the clients and the poller do: lines move from one place to the    *)
(* next.                                                                   *)
LEMMA TInvLines ==
    ASSUME IInv, TInv, NEW c \in Clients,
           HandleAccept(c) \/ Client(c) \/ Serve(c)
    PROVE  TInv'
<1>1. /\ typed \in [Clients -> Nat] /\ inbound \in [Clients -> Nat]
      /\ taken \in [Clients -> Nat]
      /\ \A d \in Clients :
            taken[d] + inbound[d] <= typed[d] /\ typed[d] <= Len(Lines[d])
      /\ Len(Lines[c]) \in Nat
  BY ServerAssumption DEF TInv, Lengths, IInv, Typed
<1>2. UNCHANGED <<met, querying, running, job, up, walk, cursor, master, slave,
                  due, file, doubted>>
  BY DEF HandleAccept, Client, Serve, TypeLine, ShutdownWrite, ServerClose,
         HandleMessage, HandleClose, Pool!Submit, clients, process, database,
         pool, caches, disk
<1>3. Querying' /\ Copies' /\ AtNode'
  BY <1>2, CopiesSame DEF TInv, Querying
<1>4. Lengths'
  <2>1. CASE TypeLine(c)
    <3>1. /\ typed' = [typed EXCEPT ![c] = @ + 1]
          /\ inbound' = [inbound EXCEPT ![c] = @ + 1]
          /\ taken' = taken /\ typed[c] < Len(Lines[c])
      BY <2>1 DEF TypeLine, process
    <3>2. typed' \in [Clients -> Nat] /\ inbound' \in [Clients -> Nat]
      BY <1>1, <3>1
    <3>3. \A d \in Clients :
             /\ d = c => typed'[d] = typed[c] + 1 /\ inbound'[d] = inbound[c] + 1
             /\ d # c => typed'[d] = typed[d] /\ inbound'[d] = inbound[d]
      BY <1>1, <3>1
    <3> QED BY <1>1, <3>1, <3>2, <3>3 DEF Lengths
  <2>2. CASE HandleMessage(c)
    <3>1. /\ inbound' = [inbound EXCEPT ![c] = IF Buffered(c) > 0 THEN @ ELSE 0]
          /\ taken' = [taken EXCEPT ![c] = @ + 1]
          /\ typed' = typed /\ inbound[c] > 0
      BY <2>2 DEF HandleMessage
    <3>2. inbound' \in [Clients -> Nat]
      BY <1>1, <3>1
    <3>3. \A d \in Clients :
             /\ d = c => /\ taken'[d] = taken[c] + 1
                         /\ inbound'[d] = IF Buffered(c) > 0 THEN inbound[c] ELSE 0
             /\ d # c => taken'[d] = taken[d] /\ inbound'[d] = inbound[d]
      BY <1>1, <3>1
    <3>4. taken'[c] + inbound'[c] <= typed[c]
      BY <1>1, <3>1, <3>3 DEF Buffered
    <3> QED BY <1>1, <3>1, <3>2, <3>3, <3>4 DEF Lengths
  <2>3. CASE ~TypeLine(c) /\ ~HandleMessage(c)
    <3>1. UNCHANGED <<typed, inbound, taken>>
      BY <2>3 DEF HandleAccept, Client, Serve, ShutdownWrite, ServerClose,
                  HandleClose, Send, clients, process
    <3> QED BY <1>1, <3>1 DEF Lengths
  <2> QED BY <2>1, <2>2, <2>3
<1>5. Threads'
  <2>1. CASE HandleMessage(c)
    <3>1. Len(pending') <= QueueSize
      <4>1. /\ pending \in Seq(Replies) /\ Len(pending) < QueueSize
            /\ pending' = Append(pending, Reply(c, taken'[c]))
        BY <2>1 DEF HandleMessage, Pool!Submit, IInv, Typed
      <4>2. QueueSize \in Nat
        BY ServerAssumption
      <4> QED BY <4>1, <4>2
    <3> QED BY <1>2, <3>1 DEF TInv, Threads
  <2>2. CASE ~HandleMessage(c)
    <3>1. UNCHANGED pending
      BY <2>2 DEF HandleAccept, Client, Serve, TypeLine, ShutdownWrite,
                  ServerClose, HandleClose, pool
    <3> QED BY <1>2, <3>1 DEF TInv, Threads
  <2> QED BY <2>1, <2>2
<1>6. Down'
  <2>1. CASE up
    BY <1>2, <2>1 DEF Down
  <2>2. CASE ~up
    <3>1. UNCHANGED <<mapped, pending>>
      BY <2>2 DEF TInv, Down, HandleAccept, Client, Serve, TypeLine,
                  ShutdownWrite, ServerClose, HandleMessage, HandleClose,
                  process, pool
    <3> QED BY <1>2, <3>1 DEF TInv, Down
  <2> QED BY <2>1, <2>2
<1> QED BY <1>3, <1>4, <1>5, <1>6 DEF TInv

(* A task starts on a free thread and does not query yet.                  *)
LEMMA TInvStartTask ==
    ASSUME IInv, TInv, StartTask
    PROVE  TInv'
<1>1. /\ UNCHANGED <<typed, inbound, taken, met, querying, mapped, master,
                     slave, walk, cursor, due, file, doubted>>
      /\ up /\ up' = up /\ Pool!Dispatch
      /\ job' = [t \in running' |->
                    IF t \in running THEN job[t]
                    ELSE [stage |-> "lookup", val |-> <<>>]]
  BY DEF StartTask, clients, process, database, caches, disk
<1>2. /\ pending \in Seq(Replies) /\ pending # <<>>
      /\ running' = running \cup {Head(pending)}
      /\ pending' = Tail(pending)
      /\ Cardinality(running) < PoolSize
  BY <1>1, SameCardinality DEF Pool!Dispatch, IInv, Typed
<1>3. Lengths' /\ Down' /\ Copies' /\ AtNode'
  BY <1>1, CopiesSame DEF TInv, Lengths, Down
<1>4. Querying'
  BY <1>1, <1>2 DEF TInv, Querying
<1>5. Threads'
  <2>1. /\ IsFiniteSet(running') /\ Cardinality(running) \in Nat
        /\ \/ Cardinality(running') = Cardinality(running)
           \/ Cardinality(running') = Cardinality(running) + 1
    BY <1>2, FS_AddElement, FS_CardinalityType DEF TInv, Threads
  <2>2. Len(pending') <= QueueSize
    <3>1. Len(pending) \in Nat /\ Len(pending') <= Len(pending)
      BY <1>2
    <3> QED BY <3>1, ServerAssumption DEF TInv, Threads
  <2>3. PoolSize \in Nat
    BY ServerAssumption
  <2> QED BY <1>2, <2>1, <2>2, <2>3 DEF Threads
<1> QED BY <1>3, <1>4, <1>5 DEF TInv

(* compute: a task queries only while it is at its query, and its put      *)
(* leaves the master whole and no shorter.                                 *)
LEMMA TInvCompute ==
    ASSUME IInv, TInv, NEW t, Compute(t)
    PROVE  TInv'
<1>1. t \in running /\ up /\ DOMAIN job = running
  BY DEF TInv, Down, Compute, Lookup, BeginQuery, EndQuery, SendAnswer,
         PutIntoMaster, Stage, IInv, Typed
<1>2. UNCHANGED <<typed, inbound, taken, mapped, pending, up, slave, walk,
                  cursor, due, file>>
  BY DEF Compute, Lookup, BeginQuery, EndQuery, SendAnswer, PutIntoMaster,
         Send, Pool!Finish, clients, process, pool, caches, disk
<1>3. Lengths' /\ Down'
  BY <1>1, <1>2 DEF TInv, Lengths, Down
<1>4. CASE PutIntoMaster(t)
  <2>1. /\ UNCHANGED <<met, querying>>
        /\ job[t].stage = "put"
        /\ running' = running \ {t}
        /\ job' = [u \in running' |-> job[u]]
        /\ master' = Put(master, Word(t), job[t].val, MaxSize)
        /\ doubted' = IF Crosses
                      THEN doubted \cup {Last(slave.list).key, Word(t)}
                      ELSE doubted
    BY <1>4 DEF PutIntoMaster, Stage, Pool!Finish, database
  <2>2. Querying'
    BY <2>1 DEF TInv, Querying
  <2>3. Threads'
    <3>1. /\ IsFiniteSet(running') /\ Cardinality(running') <= Cardinality(running)
          /\ Cardinality(running') \in Nat /\ Cardinality(running) \in Nat
      BY <2>1, FS_Subset, FS_CardinalityType DEF TInv, Threads
    <3>2. PoolSize \in Nat
      BY ServerAssumption
    <3> QED BY <1>2, <3>1, <3>2 DEF TInv, Threads
  <2>4. Copies'
    <3>1. MaxSize \in Nat \ {0} /\ Whole(master)
      BY ServerAssumption DEF TInv, Copies
    <3>2. /\ Whole(master')
          /\ Len(master'.list) \in Nat /\ Len(master'.list) >= Len(master.list)
      BY <2>1, <3>1, PutWhole
    <3>3. Len(master.list) \in Nat
      BY <3>1, NodesAre DEF Whole
    <3>4. WholeBut(slave, doubted')
      BY <2>1, MoreWords DEF TInv, Copies
    <3> QED BY <1>2, <3>2, <3>3, <3>4 DEF TInv, Copies
  <2>5. AtNode'
    <3>1. CASE walk \notin {"val", "map"}
      BY <1>2, <3>1 DEF AtNode
    <3>2. CASE walk \in {"val", "map"}
      <4> DEFINE word == Word(t)
                 val == job[t].val
      <4>1. Whole(master) /\ cursor \in 1..Len(master.list)
        <5>1. Whole(master) /\ cursor \in 0..Len(master.list) /\ cursor # 0
          BY <3>2 DEF TInv, Copies
        <5>2. Len(master.list) \in Nat
          BY <5>1, NodesAre DEF Whole
        <5> QED BY <5>1, <5>2
      <4>2. Here' = NodeAt(Put(master, word, val, MaxSize), cursor)
        BY <1>2, <2>1 DEF Here, NodeAt, Position
      <4> HIDE DEF word, val
      <4>3. Here' = Here \/ Here'.key = word
        BY <4>1, <4>2, PutAt, ServerAssumption DEF Here
      <4>4. PICK k, v :
               /\ Len(slave.list) > 0
               /\ slave.list[Len(slave.list)] = Node(Len(slave.list), k, v)
               /\ Here.key = k \/ {k, Here.key} \subseteq doubted
        BY <3>2 DEF TInv, AtNode
      <4>5. Last(slave.list).key = k
        BY <4>4 DEF Last, Node
      <4>6. Here'.key = Here.key \/ {k, Here'.key} \subseteq doubted'
        BY <2>1, <3>2, <4>3, <4>5 DEF Crosses, word
      <4>7. Here'.key = k \/ {k, Here'.key} \subseteq doubted'
        BY <2>1, <4>4, <4>6
      <4> QED BY <1>2, <4>4, <4>7 DEF AtNode
    <3> QED BY <3>1, <3>2
  <2> QED BY <1>3, <2>2, <2>3, <2>4, <2>5 DEF TInv
<1>5. CASE ~PutIntoMaster(t)
  <2>1. UNCHANGED <<running, master>> /\ doubted \subseteq doubted'
    BY <1>5 DEF Compute, Lookup, BeginQuery, EndQuery, SendAnswer, pool, caches
  <2>2. Threads' /\ Copies' /\ AtNode'
    BY <1>2, <2>1, CopiesSame DEF TInv, Threads
  <2>3. Querying'
    <3>1. CASE BeginQuery(t)
      <4>1. /\ job' = job /\ job[t].stage = "query"
            /\ querying' = querying \cup {t}
            /\ met' \subseteq met \cup querying'
        BY <3>1 DEF BeginQuery, Stage
      <4> QED BY <1>1, <2>1, <4>1 DEF TInv, Querying
    <3>2. CASE EndQuery(t)
      <4>1. PICK val : Step(t, "send", val)
        BY <3>2 DEF EndQuery
      <4> QED BY <1>1, <2>1, <3>2, <4>1 DEF TInv, Querying, EndQuery, Step
    <3>3. CASE Lookup(t)
      <4>1. PICK stage, val : Step(t, stage, val)
        BY <3>3 DEF Lookup
      <4>2. job[t].stage = "lookup" /\ UNCHANGED <<met, querying>>
        BY <3>3 DEF Lookup, Stage, database
      <4> QED BY <1>1, <2>1, <4>1, <4>2 DEF TInv, Querying, Step
    <3>4. CASE SendAnswer(t)
      <4>1. job[t].stage = "send" /\ UNCHANGED <<met, querying>>
        BY <3>4 DEF SendAnswer, Stage, database
      <4> QED BY <1>1, <2>1, <3>4, <4>1 DEF TInv, Querying, SendAnswer, Step
    <3> QED BY <1>5, <3>1, <3>2, <3>3, <3>4 DEF Compute
  <2> QED BY <1>3, <2>2, <2>3 DEF TInv
<1> QED BY <1>4, <1>5

(* The timers: the walk goes from node to node of a whole master, while    *)
(* the slave grows whole.                                                  *)
LEMMA TInvTimers ==
    ASSUME TInv, Copy \/ WriteToFile
    PROVE  TInv'
<1>1. UNCHANGED <<typed, inbound, taken, pending, running, met, querying, job,
                  up, mapped, master, doubted>>
  BY DEF Copy, BeginCopy, CopyKey, CopyVal, MapNode, NextNode, EndCopy,
         WriteToFile, clients, process, database, pool
<1>2. Lengths' /\ Threads' /\ Querying'
  BY <1>1 DEF TInv, Lengths, Threads, Querying
<1>3. /\ Whole(master) /\ WholeBut(slave, doubted)
      /\ cursor \in 0..Len(master.list)
      /\ due \subseteq {"write", "copy"} /\ \E S : file \in Seq(S)
      /\ walk \in {"off", "copy", "val", "map", "next"}
      /\ walk \in {"val", "map", "next"} => cursor # 0
  BY DEF TInv, Copies
<1>4. /\ Len(master.list) \in Nat
      /\ \A i \in 1..Len(master.list) : master.list[i].id \in 1..Len(master.list)
  <2>1. Nodes(master) = {master.list[i] : i \in 1..Len(master.list)}
    BY <1>3, NodesAre DEF Whole
  <2>2. Len(master.list) \in Nat
    BY <1>3, NodesAre DEF Whole
  <2>3. {n.id : n \in Nodes(master)} = 1..Len(master.list)
    BY <1>3 DEF Whole
  <2> QED BY <2>1, <2>2, <2>3
<1>5. CASE BeginCopy
  <2>1. /\ up /\ slave' = EmptyCache /\ walk' = "copy" /\ file' = file
        /\ due' \subseteq due /\ cursor' = FirstOf(master.list)
    BY <1>5 DEF BeginCopy, disk
  <2>2. cursor' \in 0..Len(master.list)
    <3>1. CASE master.list = <<>>
      BY <1>4, <2>1, <3>1 DEF FirstOf
    <3>2. CASE master.list # <<>>
      <4>1. 1 \in 1..Len(master.list)
        <5>1. PICK S : master.list \in Seq(S)
          BY <1>3 DEF Whole
        <5> QED BY <3>2, <5>1
      <4> QED BY <1>4, <2>1, <3>2, <4>1 DEF FirstOf
    <3> QED BY <3>1, <3>2
  <2> QED
    BY <1>1, <1>2, <1>3, <2>1, <2>2, EmptyWhole, WholeIs
       DEF TInv, Copies, AtNode, Down
<1>6. CASE CopyKey
  <2> DEFINE k == Here.key
             v == Here.val
             L == Len(slave.list)
  <2>1. /\ UNCHANGED <<cursor, due, file>> /\ cursor # 0 /\ walk' = "val"
        /\ slave' = AddNode(slave, k, v) /\ walk = "copy"
    BY <1>6 DEF CopyKey, disk
  <2>2. /\ NodesPlaced(slave') /\ slave'.map = slave.map
        /\ Len(slave'.list) = L + 1 /\ L \in Nat
        /\ slave'.list[L + 1] = Node(L + 1, k, v)
        /\ Nodes(slave') = Nodes(slave) \cup {Node(L + 1, k, v)}
    BY <1>3, <2>1, AddNodeIs DEF WholeBut
  <2>3. WholeBut(slave', doubted)
    <3>1. \A x \in DOMAIN slave'.map :
             \E n \in Nodes(slave') :
                n.id = slave'.map[x] /\ (n.key = x \/ x \in doubted)
      BY <1>3, <2>2 DEF WholeBut
    <3> QED BY <2>2, <3>1 DEF WholeBut
  <2>4. Here' = Here
    BY <1>1, <2>1, HereSame
  <2>5. AtNode'
    <3>1. Len(slave'.list) > 0
      BY <2>2
    <3> QED BY <2>2, <2>4, <3>1 DEF AtNode
  <2> QED BY <1>1, <1>2, <1>3, <2>1, <2>3, <2>5 DEF TInv, Copies, Down
<1>7. CASE CopyVal
  <2> DEFINE v == Here.val
             L == Len(slave.list)
  <2>1. /\ UNCHANGED <<cursor, due, file>> /\ walk' = "map"
        /\ slave' = SetVal(slave, v) /\ walk = "val"
    BY <1>7 DEF CopyVal, disk
  <2>2. PICK k, u : /\ L > 0 /\ slave.list[L] = Node(L, k, u)
                    /\ Here.key = k \/ {k, Here.key} \subseteq doubted
    BY <2>1 DEF TInv, AtNode
  <2> HIDE DEF v
  <2>3. WholeBut(slave', doubted) /\ LastSet(slave, slave', k, v)
    <3>1. /\ Len(slave.list) > 0 /\ WholeBut(slave, doubted)
          /\ slave.list[Len(slave.list)] = Node(Len(slave.list), k, u)
      BY <1>3, <2>2
    <3>2. /\ WholeBut(SetVal(slave, v), doubted)
          /\ LastSet(slave, SetVal(slave, v), k, v)
      BY <3>1, SetValIs
    <3> QED BY <2>1, <3>2
  <2>4. Here' = Here
    BY <1>1, <2>1, HereSame
  <2>5. AtNode'
    BY <1>1, <2>2, <2>3, <2>4 DEF AtNode, LastSet
  <2> QED BY <1>1, <1>2, <1>3, <2>1, <2>3, <2>5 DEF TInv, Copies, Down
<1>8. CASE MapNode
  <2> DEFINE h == Here.key
             L == Len(slave.list)
  <2>1. /\ UNCHANGED <<cursor, due, file>> /\ walk' = "next"
        /\ slave' = MapLast(slave, h) /\ walk = "map"
    BY <1>8 DEF MapNode, disk
  <2>2. PICK k, u : /\ L > 0 /\ slave.list[L] = Node(L, k, u)
                    /\ h = k \/ {k, h} \subseteq doubted
    BY <2>1 DEF TInv, AtNode
  <2> HIDE DEF h
  <2>3. Last(slave.list).id = L /\ (Last(slave.list).key = h \/ h \in doubted)
    BY <2>2 DEF Last, Node
  <2>4. WholeBut(slave', doubted)
    BY <1>3, <2>1, <2>2, <2>3, MapLastIs
  <2>5. AtNode'
    BY <2>1 DEF AtNode
  <2> QED BY <1>1, <1>2, <1>3, <2>1, <2>4, <2>5 DEF TInv, Copies, Down
<1>9. CASE NextNode
  <2>1. /\ UNCHANGED <<slave, due, file>> /\ walk = "next" /\ walk' = "copy"
        /\ cursor' = After(master.list, Position(master, cursor))
    BY <1>9 DEF NextNode, disk
  <2>2. cursor \in 1..Len(master.list)
    BY <1>3, <1>4, <2>1
  <2>3. Position(master, cursor) \in 1..Len(master.list)
    BY <1>3, <2>2, PositionIs
  <2>4. cursor' \in 0..Len(master.list)
    <3>1. CASE Position(master, cursor) = Len(master.list)
      BY <1>4, <2>1, <3>1 DEF After
    <3>2. CASE Position(master, cursor) # Len(master.list)
      <4>1. Position(master, cursor) + 1 \in 1..Len(master.list)
        BY <1>4, <2>3, <3>2
      <4> QED BY <1>4, <2>1, <3>2, <4>1 DEF After
    <3> QED BY <3>1, <3>2
  <2> QED BY <1>1, <1>2, <1>3, <2>1, <2>4 DEF TInv, Copies, AtNode, Down
<1>10. CASE EndCopy
  BY <1>1, <1>2, <1>3, <1>10 DEF EndCopy, disk, TInv, Copies, AtNode, Down
<1>11. CASE WriteToFile
  <2>1. /\ UNCHANGED <<slave, walk, cursor>> /\ due' \subseteq due
        /\ file' = IF OpenWrite(conf) THEN WriteLines(slave) ELSE file
    BY <1>11 DEF WriteToFile
  <2>2. \E S : file' \in Seq(S)
    BY <1>3, <2>1, PlacedLines DEF WholeBut
  <2>3. AtNode'
    BY <1>1, <2>1, HereSame DEF TInv, AtNode
  <2> QED BY <1>1, <1>2, <1>3, <2>1, <2>2, <2>3 DEF TInv, Copies, Down
<1> QED BY <1>5, <1>6, <1>7, <1>8, <1>9, <1>10, <1>11 DEF Copy

(* Every step keeps TInv, beside IInv.                                     *)
LEMMA TInvNext == IInv /\ TInv /\ [Next]_vars => TInv'
<1> SUFFICES ASSUME IInv, TInv, [Next]_vars PROVE TInv'
  OBVIOUS
<1>1. CASE UNCHANGED vars
  <2>1. Copies' /\ AtNode'
    BY <1>1, CopiesSame DEF vars, caches, disk, TInv
  <2> QED
    BY <1>1, <2>1 DEF vars, clients, process, database, pool, caches, disk,
                      TInv, Lengths, Threads, Querying, Down
<1> QED
  BY <1>1, TInvBoot, TInvKill, TInvLines, TInvStartTask, TInvCompute,
     TInvTimers DEF Next

(* TInv is an invariant of the server.                                     *)
LEMMA TInvAlways == Spec => []TInv
BY TInvInit, TInvNext, IInvAlways, PTL DEF Spec

-----------------------------------------------------------------------------
(* Answers.  VInv follows an answer through the caches, the file and a     *)
(* restart: every pair of a key and an answer is a good one, wherever it   *)
(* is.  A line of the file says less than the node it was written from, so *)
(* what it is read back as is good for another reason.                     *)

Goods ==
    {p \in Seq(STRING) \X Seq(STRING) :
        \/ p[1] \in Words /\ Explained(p[1], p[2])
        \/ Garbled(p[1])}
GoodLines == {p[1] \o p[2] : p \in Goods}

CachesGood ==
    \A n \in Nodes(master) \cup Nodes(slave) : <<n.key, n.val>> \in Goods

JobsGood ==
    \A t \in running :
        /\ job[t].val \in Seq(STRING)
        /\ job[t].stage \in {"send", "put"} => Explained(Word(t), job[t].val)

\* Before the first kill a process starts without a file.
FileGood ==
    /\ restarts \in Nat
    /\ file \in Seq(GoodLines)
    /\ up \/ file = <<>> \/ restarts > 0

VInv == CachesGood /\ JobsGood /\ FileGood /\ AnswersExplained

(* What is good stays good: words are doubted for good.                    *)
LEMMA GoodsGrow ==
    ASSUME FileGood, doubted \subseteq doubted',
           restarts' \in {restarts, restarts + 1}
    PROVE  /\ \A k, val : Explained(k, val) => Explained(k, val)'
           /\ Goods \subseteq Goods'
           /\ Seq(GoodLines) \subseteq Seq(GoodLines')
<1>1. restarts > 0 => restarts' > 0
  BY DEF FileGood
<1>2. \A k : Garbled(k) => Garbled(k)'
  BY <1>1 DEF Garbled
<1>3. \A k, val : Explained(k, val) => Explained(k, val)'
  BY <1>2 DEF Explained
<1>4. Goods \subseteq Goods'
  BY <1>2, <1>3 DEF Goods
<1>5. GoodLines \subseteq GoodLines'
  BY <1>4 DEF GoodLines
<1>6. \A S, T : S \subseteq T => Seq(S) \subseteq Seq(T)
  OBVIOUS
<1> QED BY <1>3, <1>4, <1>5, <1>6

(* Answers that were sent stay explained.                                  *)
LEMMA SentStays ==
    ASSUME VInv, doubted \subseteq doubted', sent' = sent,
           restarts' \in {restarts, restarts + 1}
    PROVE  AnswersExplained'
BY GoodsGrow DEF VInv, AnswersExplained

(* Words are sequences of strings.                                         *)
LEMMA WordsTyped ==
    /\ Words \subseteq Seq(STRING)
    /\ \A w \in Words : w \in DOMAIN Answer /\ Answer[w] \in Seq(STRING)
<1>1. ASSUME NEW c \in Clients, NEW line \in Range(Lines[c])
      PROVE  Received(line) \in Seq(STRING)
  <2>1. Lines[c] \in Seq(Seq(STRING)) /\ Len(line) > 1
    BY ServerAssumption
  <2>2. line \in Seq(STRING)
    BY <2>1 DEF Range
  <2> DEFINE L == Len(line)
  <2>3. L \in Nat /\ L > 1
    BY <2>1, <2>2
  <2>4. \A m \in 0..L : SubSeq(line, 1, m) \in Seq(STRING)
    BY <2>2
  <2>5. L - 2 \in 0..L /\ L - 1 \in 0..L
    BY <2>3
  <2> QED
    BY <2>2, <2>4, <2>5 DEF Received, TrimSpaceRn, TrimSpaceN
<1>2. Words \subseteq Seq(STRING)
  BY <1>1 DEF Words
<1> QED BY <1>2, ServerAssumption

(* The word of a task is one.                                              *)
LEMMA WordIsWord ==
    ASSUME NEW t \in Tasks
    PROVE  /\ Word(t) \in Words
           /\ t = Reply(t.conn, t.line) /\ t.conn \in Clients
<1>1. PICK c \in Clients : \E n \in 1..Len(Lines[c]) : t = Reply(c, n)
  BY DEF Tasks
<1>2. PICK n \in 1..Len(Lines[c]) : t = Reply(c, n)
  BY <1>1
<1>3. t.conn = c /\ t.line = n
  BY <1>2 DEF Reply
<1>4. Lines[c] \in Seq(Seq(STRING))
  BY ServerAssumption
<1>5. Lines[c][n] \in Range(Lines[c])
  BY <1>4 DEF Range
<1> QED BY <1>2, <1>3, <1>5 DEF Word, Words

(* The first element on its own.                                           *)
LEMMA FirstOfSeq ==
    ASSUME NEW S, NEW s \in Seq(S), Len(s) >= 1
    PROVE  SubSeq(s, 1, 1) = <<s[1]>>
<1>1. s[1] \in S
  OBVIOUS
<1>2. \A i \in 1..1 : s[i] \in S
  BY <1>1
<1>3. /\ SubSeq(s, 1, 1) \in Seq(S)
      /\ Len(SubSeq(s, 1, 1)) = 1
      /\ SubSeq(s, 1, 1)[1] = s[1]
  BY <1>2
<1>4. \A t \in Seq(S) : Len(t) = 1 => t = <<t[1]>>
  OBVIOUS
<1> QED BY <1>3, <1>4

(* A line of the file, read back behind any good pair or at first, is a    *)
(* good pair: it is the one that was written if that were two words, and   *)
(* else its first word is garbled.                                         *)
LEMMA LineReadBack ==
    ASSUME restarts > 0, NEW line \in GoodLines, NEW key, NEW val,
           <<key, val>> \in Goods \cup {<<NoWords, NoWords>>}
    PROVE  <<KeyRead(line, key), ValRead(line, val)>> \in Goods
<1>1. PICK p \in Goods : line = p[1] \o p[2]
  BY DEF GoodLines
<1> DEFINE k == p[1]
           v == p[2]
           K == KeyRead(line, key)
           V == ValRead(line, val)
<1>2. /\ k \in Seq(STRING) /\ v \in Seq(STRING)
      /\ p = <<k, v>>
      /\ (k \in Words /\ Explained(k, v)) \/ Garbled(k)
  BY DEF Goods
<1>3. line = k \o v
  BY <1>1
<1> HIDE DEF k, v
<1>4. /\ Len(k) \in Nat /\ Len(v) \in Nat
      /\ line \in Seq(STRING) /\ Len(line) = Len(k) + Len(v)
      /\ \A i \in 1..Len(k) : line[i] = k[i]
      /\ \A i \in 1..Len(v) : line[Len(k) + i] = v[i]
  BY <1>2, <1>3
<1>5. /\ key \in Seq(STRING) /\ val \in Seq(STRING)
  <2>1. CASE <<key, val>> \in Goods
    BY <2>1 DEF Goods
  <2>2. CASE <<key, val>> = <<NoWords, NoWords>>
    <3>1. key = <<>> /\ val = <<>>
      BY <2>2 DEF NoWords
    <3> QED BY <3>1
  <2> QED BY <2>1, <2>2
<1>6. CASE Len(line) = 0
  <2>1. k = <<>> /\ v = <<>>
    <3>1. Len(k) = 0 /\ Len(v) = 0
      BY <1>4, <1>6
    <3> QED BY <1>2, <3>1
  <2>2. K = key /\ V = val
    BY <1>6 DEF KeyRead, ValRead
  <2> QED BY <1>1, <1>2, <2>1, <2>2 DEF NoWords
<1>7. CASE Len(line) # 0
  <2>1. Len(line) >= 1 /\ K = <<line[1]>>
    BY <1>4, <1>7 DEF KeyRead
  <2>2. V \in Seq(STRING)
    <3>1. Len(line) >= 2 => line[2] \in STRING
      BY <1>4
    <3> QED BY <1>5, <3>1, SMTT(30) DEF ValRead
  <2>3. K \in Seq(STRING) /\ Len(K) = 1
    <3>1. line[1] \in STRING
      BY <1>4, <2>1
    <3> QED BY <2>1, <3>1
  <2> HIDE DEF K, V
  <2>4. Garbled(K) => <<K, V>> \in Goods
    BY <2>2, <2>3 DEF Goods
  <2>5. CASE Garbled(k)
    <3>1. Len(k) = 1
      BY <2>5 DEF Garbled
    <3>2. K = k
      BY <1>2, <1>4, <2>1, <2>3, <3>1
    <3> QED BY <2>4, <2>5, <3>2 DEF K, V
  <2>6. CASE k \in Words /\ k \in doubted
    <3>1. k = <<>> \/ K = SubSeq(k \o Answer[k], 1, 1)
      <4>1. CASE Len(k) = 0
        BY <1>2, <4>1
      <4>2. CASE Len(k) # 0
        <5>1. K = <<k[1]>>
          BY <1>4, <2>1, <4>2
        <5>2. Answer[k] \in Seq(STRING)
          BY <2>6, WordsTyped
        <5>3. /\ k \o Answer[k] \in Seq(STRING)
              /\ Len(k \o Answer[k]) >= 1 /\ (k \o Answer[k])[1] = k[1]
          BY <1>2, <1>4, <4>2, <5>2
        <5>4. SubSeq(k \o Answer[k], 1, 1) = <<(k \o Answer[k])[1]>>
          BY <5>3, FirstOfSeq
        <5> QED BY <5>1, <5>3, <5>4
      <4> QED BY <4>1, <4>2
    <3>2. Garbled(K)
      BY <2>3, <2>6, <3>1 DEF Garbled
    <3> QED BY <2>4, <3>2 DEF K, V
  <2>7. CASE k \in Words /\ v = Answer[k]
    <3>1. CASE Len(k) = 1 /\ Len(v) = 1
      <4>1. K = k
        BY <1>2, <1>4, <2>1, <2>3, <3>1
      <4>2. V = v
        <5>1. Len(line) >= 2 /\ line[2] = v[1]
          BY <1>4, <3>1
        <5> QED BY <1>2, <3>1, <5>1 DEF V, ValRead
      <4> QED BY <1>2, <4>1, <4>2 DEF K, V
    <3>2. CASE ~(Len(k) = 1 /\ Len(v) = 1)
      <4>1. K = SubSeq(k \o Answer[k], 1, 1)
        <5>1. SubSeq(line, 1, 1) = <<line[1]>>
          BY <1>4, <2>1, FirstOfSeq
        <5> QED BY <1>3, <2>1, <2>7, <5>1
      <4>2. Garbled(K)
        BY <2>3, <2>7, <3>2, <4>1 DEF Garbled
      <4> QED BY <2>4, <4>2 DEF K, V
    <3> QED BY <3>1, <3>2
  <2> QED BY <1>2, <2>5, <2>6, <2>7 DEF Explained
<1> QED BY <1>4, <1>6, <1>7

(* At first nothing is kept and nothing sent.                              *)
LEMMA VInvInit == Init => VInv
<1> SUFFICES ASSUME Init PROVE VInv
  OBVIOUS
<1>1. /\ Nodes(master) = {} /\ Nodes(slave) = {}
      /\ running = {} /\ file = <<>> /\ restarts = 0
      /\ \A c \in Clients : DOMAIN sent[c] = {}
  BY EmptyWhole DEF Init, Pool!DInit
<1>2. <<>> \in Seq(GoodLines)
  OBVIOUS
<1> QED
  BY <1>1, <1>2 DEF VInv, CachesGood, JobsGood, FileGood, AnswersExplained

(* Steps that touch neither an answer nor what it came from.               *)
LEMMA VInvQuiet ==
    ASSUME VInv,
           UNCHANGED <<sent, running, job, master, slave, file, restarts,
                       doubted>>,
           (up' = up) \/ up'
    PROVE  VInv'
<1>1. Goods \subseteq Goods' /\ Seq(GoodLines) \subseteq Seq(GoodLines')
  BY GoodsGrow DEF VInv
<1>2. AnswersExplained'
  BY SentStays
<1>3. JobsGood'
  BY GoodsGrow DEF VInv, JobsGood
<1>4. CachesGood' /\ FileGood'
  BY <1>1 DEF VInv, CachesGood, FileGood
<1> QED BY <1>2, <1>3, <1>4 DEF VInv

(* The start: what the file gives back is good.                            *)
LEMMA VInvBoot ==
    ASSUME TInv, VInv, Boot
    PROVE  VInv'
<1>1. /\ UNCHANGED <<sent, running, job, file, restarts, doubted>>
      /\ ~up /\ up'
      /\ master' = ReadLines(EmptyCache, IF OpenRead(conf') THEN file ELSE <<>>)
      /\ slave' = master'
  BY DEF Boot, StartServer, clients, pool, database
<1>2. PICK lines : /\ lines = <<>> \/ lines = file
                   /\ master' = ReadLines(EmptyCache, lines)
  BY <1>1 DEF OpenRead
<1>3. lines \in Seq(GoodLines) /\ (lines # <<>> => restarts > 0)
  <2>1. <<>> \in Seq(GoodLines)
    OBVIOUS
  <2>2. file \in Seq(GoodLines) /\ (file = <<>> \/ restarts > 0)
    BY <1>1 DEF VInv, FileGood
  <2> QED BY <1>2, <2>1, <2>2
<1>4. ASSUME NEW i \in 1..Len(lines), NEW key, NEW val,
             <<key, val>> \in Goods \cup {<<NoWords, NoWords>>}
      PROVE  <<KeyRead(lines[i], key), ValRead(lines[i], val)>> \in Goods
  <2>1. lines[i] \in GoodLines /\ restarts > 0
    BY <1>3
  <2> QED BY <1>4, <2>1, LineReadBack
<1>5. \A n \in Nodes(ReadLines(EmptyCache, lines)) : <<n.key, n.val>> \in Goods
  BY <1>3, <1>4, ReadPairs
<1>6. Goods \subseteq Goods' /\ Seq(GoodLines) \subseteq Seq(GoodLines')
  BY <1>1, GoodsGrow DEF VInv
<1>7. CachesGood'
  BY <1>1, <1>2, <1>5, <1>6 DEF CachesGood
<1>8. FileGood'
  BY <1>1, <1>6 DEF VInv, FileGood
<1>9. AnswersExplained'
  BY <1>1, SentStays
<1>10. JobsGood'
  BY <1>1, GoodsGrow DEF VInv, JobsGood
<1> QED BY <1>7, <1>8, <1>9, <1>10 DEF VInv

(* A good cache writes good lines.                                         *)
LEMMA WrittenGood ==
    ASSUME TInv, VInv
    PROVE  /\ WriteLines(slave) \in Seq(GoodLines)
           /\ Len(WriteLines(slave)) = Len(slave.list)
<1>1. NodesPlaced(slave)
  BY DEF TInv, Copies, WholeBut
<1>2. PICK S : WriteLines(slave) \in Seq(S)
  BY <1>1, PlacedLines
<1>3. /\ Len(WriteLines(slave)) = Len(slave.list) /\ Len(slave.list) \in Nat
      /\ \A i \in 1..Len(slave.list) :
            /\ WriteLines(slave)[i] = LineOf(slave.list[i])
            /\ slave.list[i] \in Nodes(slave)
  BY <1>1, PlacedLines
<1>4. ASSUME NEW i \in 1..Len(slave.list)
      PROVE  WriteLines(slave)[i] \in GoodLines
  <2> DEFINE p == <<slave.list[i].key, slave.list[i].val>>
  <2>1. p \in Goods
    BY <1>3 DEF VInv, CachesGood
  <2>2. LineOf(slave.list[i]) = p[1] \o p[2]
    BY DEF LineOf
  <2> QED BY <1>3, <2>1, <2>2 DEF GoodLines
<1>5. \A T, w : w \in Seq(S) /\ (\A i \in 1..Len(w) : w[i] \in T) => w \in Seq(T)
  OBVIOUS
<1> QED BY <1>2, <1>3, <1>4, <1>5

(* A kill may leave the beginning of the lines of the slave.               *)
LEMMA VInvKill ==
    ASSUME TInv, VInv, Kill
    PROVE  VInv'
<1>1. /\ UNCHANGED <<sent, doubted>>
      /\ restarts' = restarts + 1 /\ running' = {}
      /\ master' = EmptyCache /\ slave' = EmptyCache
      /\ file' = file \/ \E n \in 0..Len(slave.list) :
                             file' = SubSeq(WriteLines(slave), 1, n)
  BY DEF Kill
<1>2. restarts \in Nat /\ file \in Seq(GoodLines)
  BY DEF VInv, FileGood
<1>3. Seq(GoodLines) \subseteq Seq(GoodLines')
  BY <1>1, GoodsGrow DEF VInv
<1>4. file' \in Seq(GoodLines)
  <2>1. ASSUME NEW n \in 0..Len(slave.list)
        PROVE  SubSeq(WriteLines(slave), 1, n) \in Seq(GoodLines)
    <3>1. /\ WriteLines(slave) \in Seq(GoodLines)
          /\ Len(WriteLines(slave)) = Len(slave.list)
      BY WrittenGood
    <3>2. \A w \in Seq(GoodLines) : \A m \in 0..Len(w) :
             SubSeq(w, 1, m) \in Seq(GoodLines)
      OBVIOUS
    <3> QED BY <3>1, <3>2
  <2> QED BY <1>1, <1>2, <2>1
<1>5. FileGood'
  BY <1>1, <1>2, <1>3, <1>4 DEF FileGood
<1>6. CachesGood' /\ JobsGood'
  BY <1>1, EmptyWhole DEF CachesGood, JobsGood
<1>7. AnswersExplained'
  BY <1>1, SentStays
<1> QED BY <1>5, <1>6, <1>7 DEF VInv

(* An answer that is sent is explained, or it is the greeting.             *)
LEMMA SentExplained ==
    ASSUME SentTyped, VInv, NEW c \in Clients, NEW n, NEW val, Send(c, n, val),
           UNCHANGED <<doubted, restarts>>,
           n > 0 => Explained(Word(Reply(c, n)), val)
    PROVE  AnswersExplained'
<1>1. PICK S : sent \in [Clients -> Seq(S)]
  BY DEF SentTyped
<1> DEFINE r == [line |-> n, val |-> val]
<1>2. /\ \A d \in Clients : d # c => sent'[d] = sent[d]
      /\ sent'[c] = Append(sent[c], r)
  BY <1>1 DEF Send
<1>3. /\ Len(sent[c]) \in Nat /\ DOMAIN sent[c] = 1..Len(sent[c])
      /\ DOMAIN Append(sent[c], r) = 1..(Len(sent[c]) + 1)
      /\ \A i \in 1..Len(sent[c]) : Append(sent[c], r)[i] = sent[c][i]
      /\ Append(sent[c], r)[Len(sent[c]) + 1] = r
  BY <1>1
<1>4. r.line = n /\ r.val = val
  OBVIOUS
<1> HIDE DEF r
<1>5. \A k, v : Explained(k, v) => Explained(k, v)'
  BY GoodsGrow DEF VInv
<1>6. ASSUME NEW d \in Clients, NEW i \in DOMAIN sent'[d], sent'[d][i].line > 0
      PROVE  Explained(Word(Reply(d, sent'[d][i].line)), sent'[d][i].val)
  <2>1. CASE d = c /\ i = Len(sent[c]) + 1
    BY <1>2, <1>3, <1>4, <1>6, <2>1
  <2>2. CASE ~(d = c /\ i = Len(sent[c]) + 1)
    <3>1. i \in DOMAIN sent[d] /\ sent'[d][i] = sent[d][i]
      BY <1>2, <1>3, <2>2
    <3> QED BY <1>6, <3>1 DEF VInv, AnswersExplained
  <2> QED BY <2>1, <2>2
<1> QED BY <1>5, <1>6 DEF AnswersExplained, Word, Reply

(* The greeting answers nothing.                                           *)
LEMMA VInvAccept ==
    ASSUME IInv, VInv, NEW c \in Clients, HandleAccept(c)
    PROVE  VInv'
<1>1. /\ UNCHANGED <<running, job, master, slave, file, restarts, doubted, up>>
      /\ Send(c, 0, Greeting)
  BY DEF HandleAccept, pool, caches, disk
<1>2. AnswersExplained'
  BY <1>1, SentExplained DEF IInv
<1>3. Goods \subseteq Goods' /\ Seq(GoodLines) \subseteq Seq(GoodLines')
  BY <1>1, GoodsGrow DEF VInv
<1>4. JobsGood'
  BY <1>1, GoodsGrow DEF VInv, JobsGood
<1>5. CachesGood' /\ FileGood'
  BY <1>1, <1>3 DEF VInv, CachesGood, FileGood
<1> QED BY <1>2, <1>4, <1>5 DEF VInv

(* A task starts without an answer.                                        *)
LEMMA VInvStartTask ==
    ASSUME VInv, StartTask
    PROVE  VInv'
<1>1. /\ UNCHANGED <<sent, master, slave, file, restarts, doubted, up>>
      /\ job' = [t \in running' |->
                    IF t \in running THEN job[t]
                    ELSE [stage |-> "lookup", val |-> <<>>]]
  BY DEF StartTask, clients, process, caches, disk
<1>2. Goods \subseteq Goods' /\ Seq(GoodLines) \subseteq Seq(GoodLines')
  BY <1>1, GoodsGrow DEF VInv
<1>3. AnswersExplained'
  BY <1>1, SentStays
<1>4. JobsGood'
  <2>1. \A k, val : Explained(k, val) => Explained(k, val)'
    BY <1>1, GoodsGrow DEF VInv
  <2>2. <<>> \in Seq(STRING)
    OBVIOUS
  <2>3. \A t \in running' :
           \/ t \in running /\ job'[t] = job[t]
           \/ job'[t] = [stage |-> "lookup", val |-> <<>>]
    BY <1>1
  <2>4. ASSUME NEW t \in running', NEW j, j = job'[t]
        PROVE  /\ j.val \in Seq(STRING)
               /\ j.stage \in {"send", "put"} => Explained(Word(t), j.val)'
    <3>1. CASE t \in running /\ j = job[t]
      BY <2>1, <3>1 DEF VInv, JobsGood, Word
    <3>2. CASE j = [stage |-> "lookup", val |-> <<>>]
      BY <2>2, <3>2
    <3> QED BY <2>3, <2>4, <3>1, <3>2
  <2> QED BY <2>4 DEF JobsGood, Word
<1>5. CachesGood' /\ FileGood'
  BY <1>1, <1>2 DEF VInv, CachesGood, FileGood
<1> QED BY <1>3, <1>4, <1>5 DEF VInv

(* A step of a task to another stage, with an answer that is explained.    *)
LEMMA VInvStage ==
    ASSUME IInv, VInv, NEW t \in running, NEW stage, NEW val \in Seq(STRING),
           Step(t, stage, val),
           stage \in {"send", "put"} => Explained(Word(t), val)',
           doubted \subseteq doubted',
           UNCHANGED <<running, master, slave, file, restarts, up>>,
           AnswersExplained'
    PROVE  VInv'
<1>1. Goods \subseteq Goods' /\ Seq(GoodLines) \subseteq Seq(GoodLines')
  BY GoodsGrow DEF VInv
<1>2. CachesGood' /\ FileGood'
  BY <1>1 DEF VInv, CachesGood, FileGood
<1>3. JobsGood'
  <2>1. /\ job'[t] = [stage |-> stage, val |-> val]
        /\ \A u \in running : u # t => job'[u] = job[u]
    BY DEF IInv, Typed, Step
  <2>2. \A k, v : Explained(k, v) => Explained(k, v)'
    BY GoodsGrow DEF VInv
  <2>3. ASSUME NEW u \in running, NEW j, j = job'[u]
        PROVE  /\ j.val \in Seq(STRING)
               /\ j.stage \in {"send", "put"} => Explained(Word(u), j.val)'
    <3>1. CASE u = t
      BY <2>1, <2>3, <3>1
    <3>2. CASE u # t
      <4>1. j = job[u]
        BY <2>1, <2>3, <3>2
      <4> QED BY <2>2, <4>1 DEF VInv, JobsGood, Word
    <3> QED BY <3>1, <3>2
  <2> QED BY <2>3 DEF JobsGood, Word
<1> QED BY <1>2, <1>3 DEF VInv

(* What the slave holds for a word explains it, or the word is doubted.    *)
LEMMA HitExplained ==
    ASSUME TInv, VInv, NEW k, Found(slave, k)
    PROVE  FoundVal(slave, k) \in Seq(STRING) /\ Explained(k, FoundVal(slave, k))
<1>1. NodesPlaced(slave)
  BY DEF TInv, Copies, WholeBut
<1>2. PICK n \in Nodes(slave) :
         n.id = slave.map[k] /\ (n.key = k \/ k \in doubted)
  BY DEF TInv, Copies, WholeBut, Found
<1>3. slave.map[k] \in 1..Len(slave.list)
  BY <1>1, <1>2 DEF NodesPlaced
<1>4. n = NodeAt(slave, slave.map[k])
  BY <1>1, <1>2, <1>3, NodeAtIs
<1>5. FoundVal(slave, k) = n.val
  BY <1>4 DEF FoundVal
<1>6. <<n.key, n.val>> \in Goods
  BY <1>2 DEF VInv, CachesGood
<1> QED BY <1>2, <1>5, <1>6 DEF Goods, Explained

(* The lookup finds an answer, or goes on to the query, or meets a copy.   *)
LEMMA VInvLookup ==
    ASSUME IInv, TInv, VInv, NEW t, Lookup(t)
    PROVE  VInv'
<1>1. /\ UNCHANGED <<sent, running, master, slave, file, restarts, up>>
      /\ t \in running /\ doubted \subseteq doubted'
  BY DEF Lookup, Stage, clients, process, pool, caches, disk
<1>2. AnswersExplained'
  BY <1>1, SentStays
<1>3. CASE Found(slave, Word(t)) /\ Step(t, "send", FoundVal(slave, Word(t)))
  <2>1. Explained(Word(t), FoundVal(slave, Word(t)))
    BY <1>3, HitExplained
  <2>2. Explained(Word(t), FoundVal(slave, Word(t)))'
    BY <1>1, <2>1, GoodsGrow DEF VInv
  <2>3. PICK val : val = FoundVal(slave, Word(t))
    OBVIOUS
  <2>4. Explained(Word(t), val)' /\ val \in Seq(STRING) /\ Step(t, "send", val)
    BY <1>1, <1>3, <2>2, <2>3, HitExplained
  <2> QED BY <1>1, <1>2, <2>4, VInvStage
<1>4. CASE Step(t, "query", <<>>)
  <2>1. <<>> \in Seq(STRING)
    OBVIOUS
  <2> QED BY <1>1, <1>2, <1>4, <2>1, VInvStage
<1>5. CASE Copying /\ \E n \in Nodes(slave) \cup Nodes(master) :
                         Step(t, "send", n.val)
  <2>1. PICK n \in Nodes(slave) \cup Nodes(master) : Step(t, "send", n.val)
    BY <1>5
  <2>2. job'[t].stage = "send"
    BY <1>1, <2>1 DEF Step, IInv, Typed
  <2>3. Word(t) \in doubted'
    BY <1>5, <2>2 DEF Lookup
  <2>4. Explained(Word(t), n.val)'
    BY <2>3 DEF Explained, Word
  <2>5. n.val \in Seq(STRING)
    <3>1. <<n.key, n.val>> \in Goods
      BY DEF VInv, CachesGood
    <3> QED BY <3>1 DEF Goods
  <2> QED BY <1>1, <1>2, <2>1, <2>4, <2>5, VInvStage
<1> QED BY <1>3, <1>4, <1>5 DEF Lookup

(* A query that was not disturbed answers with what the dictionary says.   *)
LEMMA VInvEndQuery ==
    ASSUME IInv, TInv, VInv, NEW t \in Tasks, EndQuery(t)
    PROVE  VInv'
<1> DEFINE k == Word(t)
<1>1. /\ UNCHANGED <<sent, running, master, slave, file, restarts, up>>
      /\ t \in running
      /\ doubted' = IF t \in met \/ ~connected THEN doubted \cup {k} ELSE doubted
  BY DEF EndQuery, Stage, clients, process, pool, caches, disk
<1>2. doubted \subseteq doubted'
  BY <1>1
<1>3. AnswersExplained'
  BY <1>1, <1>2, SentStays
<1>4. PICK val : /\ val \in {k, Apology} \cup Range(Answer) \cup {Answer[k]}
                 /\ ~(t \in met \/ ~connected) => val = Answer[k]
                 /\ Step(t, "send", val)
  BY DEF EndQuery
<1>5. k \in Words /\ k \in Seq(STRING) /\ Answer[k] \in Seq(STRING)
  BY WordIsWord, WordsTyped
<1>6. val \in Seq(STRING)
  <2>1. \A v \in Range(Answer) : v \in Seq(STRING)
    BY ServerAssumption DEF Range
  <2> QED BY <1>4, <1>5, <2>1, ServerAssumption
<1>7. Explained(k, val)'
  <2>1. CASE t \in met \/ ~connected
    <3>1. k \in doubted'
      BY <1>1, <2>1
    <3> QED BY <3>1 DEF Explained, Word
  <2>2. CASE ~(t \in met \/ ~connected)
    BY <1>4, <2>2 DEF Explained, Word
  <2> QED BY <2>1, <2>2
<1> QED BY <1>1, <1>2, <1>3, <1>4, <1>6, <1>7, VInvStage

(* The answer that is sent is the one the task holds.                      *)
LEMMA VInvSend ==
    ASSUME IInv, VInv, NEW t \in Tasks, SendAnswer(t)
    PROVE  VInv'
<1>1. /\ UNCHANGED <<running, master, slave, file, restarts, up, doubted>>
      /\ t \in running /\ job[t].stage = "send"
      /\ Send(t.conn, t.line, job[t].val)
      /\ Step(t, "put", job[t].val)
  BY DEF SendAnswer, Stage, process, pool, caches, disk
<1>2. PICK val : val = job[t].val
  OBVIOUS
<1>3. val \in Seq(STRING) /\ Explained(Word(t), val)
  BY <1>1, <1>2 DEF VInv, JobsGood
<1>4. t = Reply(t.conn, t.line) /\ t.conn \in Clients
  BY WordIsWord
<1>5. AnswersExplained'
  BY <1>1, <1>2, <1>3, <1>4, SentExplained DEF IInv
<1>6. Explained(Word(t), val)'
  BY <1>1, <1>3, GoodsGrow DEF VInv, Word
<1> QED BY <1>1, <1>2, <1>3, <1>5, <1>6, VInvStage

(* The put keeps the task's pair.                                          *)
LEMMA VInvPut ==
    ASSUME IInv, TInv, VInv, NEW t \in Tasks, PutIntoMaster(t)
    PROVE  VInv'
<1>1. /\ UNCHANGED <<sent, slave, file, restarts, up>>
      /\ doubted \subseteq doubted'
      /\ t \in running /\ job[t].stage = "put"
      /\ master' = Put(master, Word(t), job[t].val, MaxSize)
      /\ running' = running \ {t}
      /\ job' = [u \in running' |-> job[u]]
  BY DEF PutIntoMaster, Stage, Pool!Finish, clients, process, caches, disk
<1>2. Goods \subseteq Goods' /\ Seq(GoodLines) \subseteq Seq(GoodLines')
  BY <1>1, GoodsGrow DEF VInv
<1>3. AnswersExplained' /\ FileGood'
  BY <1>1, <1>2, SentStays DEF VInv, FileGood
<1>4. <<Word(t), job[t].val>> \in Goods
  <2>1. Word(t) \in Words /\ Word(t) \in Seq(STRING)
    BY WordIsWord, WordsTyped
  <2>2. job[t].val \in Seq(STRING) /\ Explained(Word(t), job[t].val)
    BY <1>1 DEF VInv, JobsGood
  <2> QED BY <2>1, <2>2 DEF Goods
<1>5. \A n \in Nodes(master') :
         n \in Nodes(master) \/ (n.key = Word(t) /\ n.val = job[t].val)
  <2>1. MaxSize \in Nat \ {0} /\ Whole(master)
    BY ServerAssumption DEF TInv, Copies
  <2> QED BY <1>1, <2>1, PutWhole
<1>6. CachesGood'
  BY <1>1, <1>2, <1>4, <1>5 DEF VInv, CachesGood
<1>7. JobsGood'
  <2>1. \A k, val : Explained(k, val) => Explained(k, val)'
    BY <1>1, GoodsGrow DEF VInv
  <2>2. ASSUME NEW u \in running', NEW j, j = job'[u]
        PROVE  /\ j.val \in Seq(STRING)
               /\ j.stage \in {"send", "put"} => Explained(Word(u), j.val)'
    <3>1. u \in running /\ j = job[u]
      BY <1>1, <2>2
    <3> QED BY <2>1, <3>1 DEF VInv, JobsGood, Word
  <2> QED BY <2>2 DEF JobsGood, Word
<1> QED BY <1>3, <1>6, <1>7 DEF VInv

(* The node under the walk is a good one.                                  *)
LEMMA HereGood ==
    ASSUME TInv, VInv, cursor # 0
    PROVE  <<Here.key, Here.val>> \in Goods
<1>1. Whole(master) /\ cursor \in 0..Len(master.list)
  BY DEF TInv, Copies
<1>2. Len(master.list) \in Nat
  BY <1>1, NodesAre DEF Whole
<1>3. Here \in Nodes(master)
  BY <1>1, <1>2, WholeIs, NodeAtIs DEF Here
<1> QED BY <1>3 DEF VInv, CachesGood

(* The timers copy good nodes and write good lines.                        *)
LEMMA VInvTimers ==
    ASSUME TInv, VInv, Copy \/ WriteToFile
    PROVE  VInv'
<1>1. UNCHANGED <<sent, running, job, master, restarts, doubted, up>>
  BY DEF Copy, BeginCopy, CopyKey, CopyVal, MapNode, NextNode, EndCopy,
         WriteToFile, clients, process, pool, disk
<1>2. Goods \subseteq Goods' /\ Seq(GoodLines) \subseteq Seq(GoodLines')
  BY <1>1, GoodsGrow DEF VInv
<1>3. AnswersExplained' /\ JobsGood'
  BY <1>1, SentStays, GoodsGrow DEF VInv, JobsGood
<1>4. CASE WriteToFile
  <2>1. slave' = slave /\ (file' = WriteLines(slave) \/ file' = file)
    BY <1>4 DEF WriteToFile
  <2>2. file' \in Seq(GoodLines)
    BY <2>1, WrittenGood DEF VInv, FileGood
  <2>3. up
    BY <1>4 DEF WriteToFile
  <2> QED
    BY <1>1, <1>2, <1>3, <2>1, <2>2, <2>3 DEF VInv, CachesGood, FileGood
<1>5. CASE Copy
  <2>1. file' = file
    BY <1>5 DEF Copy, BeginCopy, CopyKey, CopyVal, MapNode, NextNode, EndCopy,
                disk
  <2>2. FileGood'
    BY <1>1, <1>2, <2>1 DEF VInv, FileGood
  <2>3. \A n \in Nodes(slave') : <<n.key, n.val>> \in Goods
    <3>1. CASE BeginCopy
      BY <3>1, EmptyWhole DEF BeginCopy
    <3>2. CASE CopyKey
      <4>1. cursor # 0 /\ slave' = AddNode(slave, Here.key, Here.val)
        BY <3>2 DEF CopyKey
      <4>2. <<Here.key, Here.val>> \in Goods
        BY <4>1, HereGood
      <4> DEFINE m == Node(Len(slave.list) + 1, Here.key, Here.val)
      <4>3. Nodes(slave') = Nodes(slave) \cup {m}
        BY <4>1, AddNodeIs DEF TInv, Copies, WholeBut
      <4>4. m.key = Here.key /\ m.val = Here.val
        BY DEF Node
      <4> HIDE DEF m
      <4> QED BY <4>2, <4>3, <4>4 DEF VInv, CachesGood
    <3>3. CASE CopyVal
      <4>1. walk = "val" /\ cursor # 0 /\ slave' = SetVal(slave, Here.val)
        BY <3>3 DEF CopyVal, TInv, Copies
      <4>2. <<Here.key, Here.val>> \in Goods
        BY <4>1, HereGood
      <4>3. PICK k, u :
               /\ Len(slave.list) > 0
               /\ slave.list[Len(slave.list)] = Node(Len(slave.list), k, u)
               /\ Here.key = k \/ {k, Here.key} \subseteq doubted
        BY <4>1 DEF TInv, AtNode
      <4> DEFINE m == Node(Len(slave.list), k, Here.val)
                 old == Node(Len(slave.list), k, u)
      <4>4. WholeBut(slave, doubted)
        BY DEF TInv, Copies
      <4>5. LastSet(slave, SetVal(slave, Here.val), k, Here.val)
        BY <4>3, <4>4, SetValIs
      <4>6. \A n \in Nodes(slave') : n \in Nodes(slave) \/ n = m
        BY <4>1, <4>5 DEF LastSet
      <4>7. m.key = k /\ m.val = Here.val /\ old.key = k /\ old.val = u
        BY DEF Node
      <4>8. old \in Nodes(slave)
        <5>1. Len(slave.list) \in 1..Len(slave.list)
          BY <4>3, <4>4, PlacedLines DEF WholeBut
        <5> QED BY <4>3, <4>4, <5>1, PlacedLines DEF WholeBut
      <4> HIDE DEF m, old
      <4>9. <<k, u>> \in Goods
        BY <4>7, <4>8 DEF VInv, CachesGood
      <4>10. <<k, Here.val>> \in Goods
        <5>1. CASE Here.key = k
          BY <4>2, <5>1
        <5>2. CASE k \in doubted
          BY <4>2, <4>9, <5>2 DEF Goods, Explained
        <5> QED BY <4>3, <5>1, <5>2
      <4> QED BY <4>6, <4>7, <4>10 DEF VInv, CachesGood
    <3>4. CASE MapNode
      BY <3>4 DEF MapNode, MapLast, Nodes, VInv, CachesGood
    <3>5. CASE NextNode \/ EndCopy
      BY <3>5 DEF NextNode, EndCopy, VInv, CachesGood
    <3> QED BY <1>5, <3>1, <3>2, <3>3, <3>4, <3>5 DEF Copy
  <2>4. CachesGood'
    BY <1>1, <1>2, <2>3 DEF VInv, CachesGood
  <2> QED BY <1>3, <2>2, <2>4 DEF VInv
<1> QED BY <1>4, <1>5

(* Every step keeps VInv, beside IInv and TInv.                            *)
LEMMA VInvNext == IInv /\ TInv /\ VInv /\ [Next]_vars => VInv'
<1> SUFFICES ASSUME IInv, TInv, VInv, [Next]_vars PROVE VInv'
  OBVIOUS
<1>1. CASE UNCHANGED vars
  BY <1>1, VInvQuiet DEF vars, clients, process, database, pool, caches, disk
<1>2. ASSUME NEW c \in Clients, HandleAccept(c) \/ Client(c) \/ Serve(c)
      PROVE  VInv'
  <2>1. CASE Client(c)
    BY <2>1, VInvQuiet DEF Client, TypeLine, ShutdownWrite, ServerClose,
                           process, pool, caches, disk
  <2>2. CASE Serve(c)
    BY <2>2, VInvQuiet DEF Serve, HandleMessage, HandleClose, Pool!Submit,
                           clients, pool, caches, disk
  <2> QED BY <1>2, <2>1, <2>2, VInvAccept
<1>3. ASSUME NEW t \in Tasks, Compute(t)
      PROVE  VInv'
  <2>1. CASE BeginQuery(t)
    BY <2>1, VInvQuiet DEF BeginQuery, clients, process, pool, caches, disk
  <2> QED
    BY <1>3, <2>1, VInvLookup, VInvEndQuery, VInvSend, VInvPut DEF Compute
<1> QED
  BY <1>1, <1>2, <1>3, VInvBoot, VInvKill, VInvStartTask, VInvTimers DEF Next

(* VInv is an invariant of the server.                                     *)
LEMMA VInvAlways == Spec => []VInv
BY VInvInit, VInvNext, IInvAlways, TInvAlways, PTL DEF Spec

(* The server stays within its types and bounds: the queue and the threads *)
(* of the pool, the lines of the clients, one address for each node of the *)
(* caches, the words that caches and file are made of, and the place of    *)
(* the walk in the master, which puts move under it.  How long caches and  *)
(* file get is not bounded.                                                *)
THEOREM ServerTypes == Spec => []TypeOK
<1>1. ASSUME IInv, TInv, VInv PROVE TypeOK
  <2>1. /\ \A i \in 1..Len(pending) :
              pending[i] \in Replies /\ pending[i].line \in 1..taken[pending[i].conn]
        /\ \A t \in running : t \in Replies /\ t.line \in 1..taken[t.conn]
    BY <1>1 DEF IInv, Typed, Flow, OnlyTaken
  <2>2. ASSUME NEW t \in Replies, t.line \in 1..taken[t.conn]
        PROVE  t \in Tasks
    <3>1. /\ t.conn \in Clients /\ t.line \in Nat
          /\ t = [conn |-> t.conn, line |-> t.line]
      BY DEF Replies
    <3>2. /\ taken[t.conn] \in Nat /\ inbound[t.conn] \in Nat
          /\ typed[t.conn] \in Nat /\ Len(Lines[t.conn]) \in Nat
          /\ taken[t.conn] + inbound[t.conn] <= typed[t.conn]
          /\ typed[t.conn] <= Len(Lines[t.conn])
      BY <1>1, <3>1, ServerAssumption DEF IInv, Typed, TInv, Lengths
    <3>3. t.line \in 1..Len(Lines[t.conn])
      BY <2>2, <3>2
    <3> QED BY <3>1, <3>3 DEF Tasks, Reply
  <2>3. Pool!PendingSet \cup running \subseteq Tasks
    BY <2>1, <2>2 DEF Pool!PendingSet
  <2>4. Pool!PendingSet \cap running = {}
    <3>1. ASSUME NEW i \in 1..Len(pending), pending[i] \in running
          PROVE  FALSE
      <4>1. pending[i].conn \in Clients /\ pending[i].line \in Nat
        BY <2>1 DEF Replies
      <4>2. pending[i].line < pending[i].line
        BY <1>1, <3>1, <4>1 DEF IInv, Flow, QueueOrder
      <4> QED BY <4>1, <4>2
    <3> QED BY <3>1 DEF Pool!PendingSet
  <2>5. /\ {n.id : n \in Nodes(master)} = 1..Len(master.list)
        /\ {n.id : n \in Nodes(slave)} = 1..Len(slave.list)
    BY <1>1 DEF TInv, Copies, Whole, WholeBut, NodesPlaced
  <2>6. met \cup querying \subseteq running
    BY <1>1 DEF TInv, Querying
  <2>7. /\ client \in [Clients -> {"away", "here", "closed", "lost"}]
        /\ DOMAIN job = running
    BY <1>1 DEF IInv, Typed
  <2>8. \A p \in Goods : p[1] \in Seq(STRING) /\ p[2] \in Seq(STRING)
    BY DEF Goods
  <2>9. \A n \in Nodes(master) \cup Nodes(slave) :
           n.key \in Seq(STRING) /\ n.val \in Seq(STRING)
    BY <1>1, <2>8 DEF VInv, CachesGood
  <2>10. file \in Seq(Seq(STRING))
    <3>1. GoodLines \subseteq Seq(STRING)
      <4>1. \A a, b \in Seq(STRING) : a \o b \in Seq(STRING)
        OBVIOUS
      <4> QED BY <2>8, <4>1 DEF GoodLines
    <3>2. file \in Seq(GoodLines)
      BY <1>1 DEF VInv, FileGood
    <3> QED BY <3>1, <3>2, SeqMonotonic
  <2> QED
    BY <1>1, <2>3, <2>4, <2>5, <2>6, <2>7, <2>9, <2>10
       DEF TInv, Lengths, Threads, Down, Copies, TypeOK
<1> QED BY <1>1, IInvAlways, TInvAlways, VInvAlways, PTL

(* Every answer a client is sent is the dictionary's, but for a word that  *)
(* a race made doubtful, now or earlier (a query that met another, a       *)
(* lookup that met a copy, a node that a put replaced between two reads of *)
(* a copy) and, after a kill, for the first word of a line of the file     *)
(* that was not two words.  So nothing else in the server, not the pool    *)
(* nor eviction nor the walk of a copy nor the file nor the restart, gives *)
(* a client the answer to another word.                                    *)
THEOREM AnswersAreExplained == Spec => []AnswersExplained
<1>1. VInv => AnswersExplained
  BY DEF VInv
<1> QED BY <1>1, VInvAlways, PTL

=============================================================================
