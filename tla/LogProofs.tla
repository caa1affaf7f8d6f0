------------------------------ MODULE LogProofs ------------------------------
(***************************************************************************)
(* Theorems about the log, for any entries and any number of failures.     *)
(*                                                                         *)
(* IInv adds to the types how far the owner and the log thread may be      *)
(* apart: the thread exists from the end of start() on, it can only be at  *)
(* its end when the flag is down, and stop() returns behind it.            *)
(***************************************************************************)
EXTENDS Log, TLAPS

\* The owner has not created the log thread yet.
NoThread == opc \in {"new", "starting", "spawning"} <=> lpc = "none"

\* The flag is up from start() to stop().
FlagFollowsOwner == isStarted <=> opc \in {"starting", "spawning", "started"}

\* The thread is at its end only after stop() has lowered the flag.
EndsUnflagged == lpc \in {"closing", "exited"} => ~isStarted

\* The closing line: written in the last step of the thread, and behind
\* every other line.
ClosedAtExit ==
    /\ CloseEntry \in Members(file) =>
          lpc = "exited" /\ file[Len(file)] = CloseEntry
    /\ lpc = "exited" => CloseEntry \in Members(file) \cup failed
    /\ opc = "stopped" => lpc = "exited"

IInv ==
    TypeOK /\ NoThread /\ FlagFollowsOwner /\ EndsUnflagged /\ ClosedAtExit

-----------------------------------------------------------------------------
(* Lines and entries.                                                      *)

(* getLog takes the head of its queue, a loggable entry.                   *)
LEMMA TakeFacts ==
    ASSUME NEW S, NEW s \in Seq(S), s # <<>>
    PROVE  Head(s) \in S /\ Tail(s) \in Seq(S)
OBVIOUS

(* An appended line is the last of the file, and the others stay.          *)
LEMMA AppendMembers ==
    ASSUME NEW S, NEW s \in Seq(S), NEW x \in S
    PROVE  /\ Append(s, x) \in Seq(S)
           /\ Members(Append(s, x)) = Members(s) \cup {x}
           /\ Append(s, x)[Len(Append(s, x))] = x
<1> DEFINE t == Append(s, x)
<1>1. /\ t \in Seq(S)
      /\ Len(t) = Len(s) + 1
      /\ t[Len(s) + 1] = x
      /\ \A i \in 1..Len(s) : t[i] = s[i]
  OBVIOUS
<1>2. Members(s) \cup {x} \subseteq Members(t)
  BY <1>1 DEF Members
<1>3. Members(t) \subseteq Members(s) \cup {x}
  BY <1>1 DEF Members
<1> QED BY <1>1, <1>2, <1>3

(* What addLog does to the queue and to the log thread.                    *)
LEMMA EnqueueFacts ==
    ASSUME IInv, NEW e \in Loggable, Enqueue(e)
    PROVE  /\ queue' \in Seq(Loggable) /\ accepted' \in Seq(Loggable)
           /\ lpc' \in LogStates
           /\ \/ lpc' = lpc
              \/ lpc = "waiting" /\ lpc' = "woken"
BY DEF IInv, TypeOK, Enqueue, Signal, Wake, LogStates

(* What writeLog does to the file: the line is added or refused.           *)
LEMMA WriteLineFacts ==
    ASSUME TypeOK, NEW e \in Loggable \cup {CloseEntry}, WriteLine(e)
    PROVE  /\ file' \in Seq(Loggable \cup {CloseEntry})
           /\ failed' \subseteq Loggable \cup {CloseEntry}
           /\ failed \subseteq failed'
           /\ \/ /\ Members(file') = Members(file) \cup {e}
                 /\ file'[Len(file')] = e
              \/ file' = file /\ e \in failed'
<1>1. file \in Seq(Loggable \cup {CloseEntry}) /\ failed \subseteq Loggable \cup {CloseEntry}
  BY DEF TypeOK
<1>2. CASE file' = Append(file, e) /\ UNCHANGED failed
  <2>1. /\ Append(file, e) \in Seq(Loggable \cup {CloseEntry})
        /\ Members(Append(file, e)) = Members(file) \cup {e}
        /\ Append(file, e)[Len(Append(file, e))] = e
    BY <1>1, AppendMembers
  <2> QED BY <1>1, <1>2, <2>1
<1>3. CASE failed' = failed \cup {e} /\ UNCHANGED file
  BY <1>1, <1>3
<1> QED BY <1>2, <1>3 DEF WriteLine

-----------------------------------------------------------------------------
(* The inductive invariant.                                                *)

(* At first there is neither a thread nor a line.                          *)
LEMMA IInvInit == Init => IInv
<1> SUFFICES ASSUME Init PROVE IInv
  OBVIOUS
<1>1. TypeOK
  <2>1. isStarted \in BOOLEAN
    BY DEF Init
  <2>2. \A S : <<>> \in Seq(S)
    OBVIOUS
  <2>3. /\ queue \in Seq(Loggable) /\ accepted \in Seq(Loggable)
        /\ file \in Seq(Loggable \cup {CloseEntry})
    BY <2>2 DEF Init
  <2>4. opc \in OwnerStates /\ lpc \in LogStates
    BY DEF Init, OwnerStates, LogStates
  <2>5. /\ entry \in Loggable \cup {NoEntry}
        /\ failed \subseteq Loggable \cup {CloseEntry}
    BY DEF Init
  <2> QED BY <2>1, <2>3, <2>4, <2>5 DEF TypeOK
<1>2. NoThread /\ FlagFollowsOwner /\ EndsUnflagged
  BY DEF Init, NoThread, FlagFollowsOwner, EndsUnflagged
<1>3. Members(file) = {}
  BY DEF Init, Members
<1>4. ClosedAtExit
  BY <1>3 DEF Init, ClosedAtExit
<1> QED BY <1>1, <1>2, <1>3, <1>4 DEF IInv

(* start() and stop(): Join is what puts the end of stop() behind that of  *)
(* the log thread.                                                         *)
LEMMA IInvOwner ==
    ASSUME IInv, Owner
    PROVE  IInv'
<1> USE DEF IInv, NoThread, FlagFollowsOwner, EndsUnflagged
<1>1. CASE StartLine
  <2>1. StartEntry \in Loggable
    BY DEF Loggable
  <2>2. /\ queue' \in Seq(Loggable) /\ accepted' \in Seq(Loggable)
        /\ lpc' = lpc /\ lpc = "none"
    BY <1>1, <2>1, EnqueueFacts DEF StartLine
  <2> QED BY <1>1, <2>2 DEF StartLine, TypeOK, ClosedAtExit, OwnerStates, Members
<1>2. CASE StartFlag \/ StartThread \/ StopFlag
  BY <1>2 DEF StartFlag, StartThread, StopFlag, TypeOK, ClosedAtExit,
              OwnerStates, LogStates, Members
<1>3. CASE StopSignal
  BY <1>3 DEF StopSignal, StopWakes, Wake, TypeOK, ClosedAtExit,
              OwnerStates, LogStates, Members
<1>4. CASE Join
  BY <1>4 DEF Join, LogThreadDone, TypeOK, ClosedAtExit, OwnerStates, Members
<1> QED BY <1>1, <1>2, <1>3, <1>4 DEF Owner

(* addLog: the entry is one that can be logged and never the closing line. *)
LEMMA IInvAddLog ==
    ASSUME IInv, NEW e \in Entries, AddLog(e)
    PROVE  IInv'
<1>1. e \in Loggable
  BY DEF Loggable
<1>2. /\ queue' \in Seq(Loggable) /\ accepted' \in Seq(Loggable)
      /\ lpc' \in LogStates
      /\ \/ lpc' = lpc
         \/ lpc = "waiting" /\ lpc' = "woken"
  BY <1>1, EnqueueFacts DEF AddLog
<1> QED
  BY <1>2 DEF AddLog, IInv, TypeOK, NoThread, FlagFollowsOwner,
              EndsUnflagged, ClosedAtExit, Members

(* The log thread: an entry is never the closing line, and the closing     *)
(* line is the last thing the thread writes.                               *)
LEMMA IInvLogThread ==
    ASSUME IInv, LogThread
    PROVE  IInv'
<1> USE DEF IInv, NoThread, FlagFollowsOwner, EndsUnflagged
<1>1. CASE CheckStarted \/ DecideToWait \/ Wait \/ TakeNothing
  BY <1>1 DEF CheckStarted, DecideToWait, Wait, TakeNothing, TypeOK,
              ClosedAtExit, LogStates, Members
<1>2. CASE TakeEntry
  <2>1. NextEntry \in Loggable /\ queue' \in Seq(Loggable)
    BY <1>2, TakeFacts DEF TakeEntry, NextEntry, TypeOK
  <2> QED
    BY <1>2, <2>1 DEF TakeEntry, TypeOK, ClosedAtExit, LogStates, Members
<1>3. CASE WriteEntry
  <2>1. CloseEntry \notin Loggable
    BY LogAssumption DEF Loggable
  <2>2. CASE HasText /\ WriteLine(entry)
    <3>1. entry \in Loggable
      BY <2>2 DEF HasText, TypeOK
    <3>2. /\ file' \in Seq(Loggable \cup {CloseEntry})
          /\ failed' \subseteq Loggable \cup {CloseEntry}
          /\ CloseEntry \notin Members(file')
      BY <1>3, <2>1, <2>2, <3>1, WriteLineFacts DEF WriteEntry, ClosedAtExit
    <3> QED
      BY <1>3, <3>2 DEF WriteEntry, TypeOK, ClosedAtExit, LogStates
  <2>3. CASE ~HasText /\ UNCHANGED <<file, failed>>
    BY <1>3, <2>3 DEF WriteEntry, TypeOK, ClosedAtExit, LogStates, Members
  <2> QED BY <1>3, <2>2, <2>3 DEF WriteEntry
<1>4. CASE WriteClosed
  <2>1. /\ file' \in Seq(Loggable \cup {CloseEntry})
        /\ failed' \subseteq Loggable \cup {CloseEntry}
        /\ CloseEntry \in Members(file') \cup failed'
        /\ CloseEntry \in Members(file') => file'[Len(file')] = CloseEntry
    BY <1>4, WriteLineFacts DEF WriteClosed, ClosedAtExit
  <2> QED BY <1>4, <2>1 DEF WriteClosed, TypeOK, ClosedAtExit, LogStates
<1> QED BY <1>1, <1>2, <1>3, <1>4 DEF LogThread

(* Every step keeps IInv.                                                  *)
LEMMA IInvNext == IInv /\ [Next]_vars => IInv'
<1> SUFFICES ASSUME IInv, [Next]_vars PROVE IInv'
  OBVIOUS
<1>1. CASE UNCHANGED vars
  BY <1>1 DEF vars, IInv, TypeOK, NoThread, FlagFollowsOwner, EndsUnflagged,
              ClosedAtExit, Members
<1>2. CASE SpuriousWake
  BY <1>2 DEF SpuriousWake, IInv, TypeOK, NoThread, FlagFollowsOwner,
              EndsUnflagged, ClosedAtExit, LogStates, Members
<1> QED BY <1>1, <1>2, IInvOwner, IInvAddLog, IInvLogThread DEF Next

(* IInv is an invariant of the log.                                        *)
LEMMA IInvAlways == Spec => []IInv
BY IInvInit, IInvNext, PTL DEF Spec

(* Every variable of the log keeps its type; in particular nothing but     *)
(* accepted entries and the closing line reaches the file.                 *)
THEOREM LogTypeCorrect == Spec => []TypeOK
<1>1. IInv => TypeOK
  BY DEF IInv
<1> QED BY <1>1, IInvAlways, PTL

(* The closing line is the last word of the log: last in the file, there   *)
(* (or refused) when stop() returns, and never written while the log is in *)
(* use, whatever the interleaving of stop() with the log thread.           *)
THEOREM ClosingLineLast == Spec => []ClosedLast
<1>1. IInv => ClosedLast
  BY DEF IInv, ClosedAtExit, EndsUnflagged, ClosedLast, Last
<1> QED BY <1>1, IInvAlways, PTL

-----------------------------------------------------------------------------
(* Nothing is lost or reordered.  Out is what became of the entries, the   *)
(* file first; a step leaves it as it is, appends what addLog accepts,     *)
(* takes out the entry that cannot be written or puts in the closing line. *)

Out == file \o InFlight \o queue

InOrder(s, acc) ==
    \A i, j \in 1..Len(s) : \A m, n \in 1..Len(acc) :
        i < j /\ s[i] = acc[m] /\ s[j] = acc[n] => m < n

Kept(s, acc, lost) ==
    /\ Members(s) \ {CloseEntry} = Members(acc) \ lost
    /\ InOrder(s, acc)

OInv ==
    /\ entry # NoEntry => lpc = "write"
    /\ opc \in {"new", "starting"} => accepted = <<>>
    /\ failed \subseteq Members(accepted) \cup {CloseEntry}
    /\ Kept(Out, accepted, failed)

Lines == Loggable \cup {CloseEntry}

(* Three sequences one behind the other.                                   *)
LEMMA JoinFacts ==
    ASSUME NEW S, NEW a \in Seq(S), NEW b \in Seq(S), NEW c \in Seq(S)
    PROVE  /\ a \o b \o c \in Seq(S)
           /\ Len(a \o b \o c) = Len(a) + Len(b) + Len(c)
           /\ \A i \in 1..Len(a) : (a \o b \o c)[i] = a[i]
           /\ \A i \in 1..Len(b) : (a \o b \o c)[Len(a) + i] = b[i]
           /\ \A i \in 1..Len(c) : (a \o b \o c)[Len(a) + Len(b) + i] = c[i]
OBVIOUS

(* One element between two sequences.                                      *)
LEMMA JoinOne ==
    ASSUME NEW S, NEW a \in Seq(S), NEW e \in S, NEW c \in Seq(S)
    PROVE  /\ Len(a \o <<e>> \o c) = Len(a) + 1 + Len(c)
           /\ \A i \in 1..Len(a) : (a \o <<e>> \o c)[i] = a[i]
           /\ (a \o <<e>> \o c)[Len(a) + 1] = e
           /\ \A i \in 1..Len(c) : (a \o <<e>> \o c)[Len(a) + 1 + i] = c[i]
OBVIOUS

(* What is queued is behind what was accepted before it.                   *)
LEMMA KeptAppend ==
    ASSUME NEW S, NEW s \in Seq(S), NEW acc \in Seq(S), NEW lost, NEW e \in S,
           Kept(s, acc, lost), e \notin Members(acc) \cup lost \cup {CloseEntry}
    PROVE  Kept(Append(s, e), Append(acc, e), lost)
<1> DEFINE t == Append(s, e)
           new == Append(acc, e)
<1>1. /\ Len(s) \in Nat /\ Len(t) = Len(s) + 1 /\ t[Len(s) + 1] = e
      /\ \A i \in 1..Len(s) : t[i] = s[i]
  OBVIOUS
<1>2. /\ Len(acc) \in Nat /\ Len(new) = Len(acc) + 1 /\ new[Len(acc) + 1] = e
      /\ \A i \in 1..Len(acc) : new[i] = acc[i]
  OBVIOUS
<1>3. /\ Members(t) = Members(s) \cup {e}
      /\ Members(new) = Members(acc) \cup {e}
  BY AppendMembers
<1> HIDE DEF t, new
<1>4. \A i \in 1..Len(s) : s[i] # e
  BY DEF Kept, Members
<1>5. \A m \in 1..Len(acc) : acc[m] # e
  BY DEF Members
<1>6. ASSUME NEW i \in 1..Len(t), NEW j \in 1..Len(t),
             NEW m \in 1..Len(new), NEW n \in 1..Len(new),
             i < j, t[i] = new[m], t[j] = new[n]
      PROVE  m < n
  <2>1. i \in 1..Len(s) /\ m \in 1..Len(acc) /\ s[i] = acc[m]
    BY <1>1, <1>2, <1>4, <1>6
  <2>2. CASE j = Len(t)
    <3>1. n = Len(new)
      BY <1>1, <1>2, <1>5, <1>6, <2>2
    <3> QED BY <1>2, <2>1, <3>1
  <2>3. CASE j # Len(t)
    <3>1. j \in 1..Len(s) /\ n \in 1..Len(acc) /\ s[j] = acc[n]
      BY <1>1, <1>2, <1>4, <1>6, <2>3, SMTT(30)
    <3> QED BY <1>6, <2>1, <3>1 DEF Kept, InOrder
  <2> QED BY <2>2, <2>3
<1>7. InOrder(t, new)
  BY <1>6 DEF InOrder
<1> QED BY <1>3, <1>7 DEF Kept, t, new

(* An entry that cannot be written is taken out: it was there once.        *)
LEMMA KeptWithout ==
    ASSUME NEW S, NEW s \in Seq(S), NEW acc \in Seq(S), NEW lost,
           Kept(s, acc, lost), NEW p \in 1..Len(s), s[p] # CloseEntry,
           NEW t \in Seq(S), Len(t) = Len(s) - 1,
           \A i \in 1..Len(t) : t[i] = IF i < p THEN s[i] ELSE s[i + 1]
    PROVE  Kept(t, acc, lost \cup {s[p]})
<1> DEFINE h(i) == IF i < p THEN i ELSE i + 1
<1>1. Len(s) \in Nat /\ Len(t) \in Nat /\ Len(acc) \in Nat
  OBVIOUS
<1>2. \A i \in 1..Len(t) : h(i) \in 1..Len(s) /\ t[i] = s[h(i)] /\ h(i) # p
  BY <1>1
<1>3. \A i, j \in 1..Len(t) : i < j => h(i) < h(j)
  BY <1>1
<1>4. \A k \in 1..Len(s) : k # p => \E i \in 1..Len(t) : h(i) = k
  <2>1. ASSUME NEW k \in 1..Len(s), k # p
        PROVE  \E i \in 1..Len(t) : h(i) = k
    <3>1. CASE k < p
      BY <1>1, <3>1
    <3>2. CASE k > p
      <4>1. k - 1 \in 1..Len(t) /\ h(k - 1) = k
        BY <1>1, <2>1, <3>2
      <4> QED BY <4>1
    <3> QED BY <1>1, <2>1, <3>1, <3>2
  <2> QED BY <2>1
<1> HIDE DEF h
<1>5. InOrder(t, acc)
  <2> SUFFICES ASSUME NEW i \in 1..Len(t), NEW j \in 1..Len(t),
                      NEW m \in 1..Len(acc), NEW n \in 1..Len(acc),
                      i < j, t[i] = acc[m], t[j] = acc[n]
               PROVE  m < n
    BY DEF InOrder
  <2>1. /\ h(i) \in 1..Len(s) /\ s[h(i)] = acc[m]
        /\ h(j) \in 1..Len(s) /\ s[h(j)] = acc[n] /\ h(i) < h(j)
    BY <1>2, <1>3
  <2> QED BY <2>1 DEF Kept, InOrder
<1>6. s[p] \in Members(acc)
  BY DEF Kept, Members
<1>7. \A k \in 1..Len(s) : s[k] = s[p] => k = p
  <2>1. PICK m \in 1..Len(acc) : s[p] = acc[m]
    BY <1>6 DEF Members
  <2>2. ASSUME NEW k \in 1..Len(s), s[k] = s[p], k # p
        PROVE  FALSE
    <3>1. k < p \/ p < k
      BY <1>1, <2>2
    <3>2. m < m
      BY <2>1, <2>2, <3>1 DEF Kept, InOrder
    <3> QED BY <1>1, <2>1, <3>2
  <2> QED BY <2>2
<1>8. Members(t) \subseteq Members(s) \ {s[p]}
  BY <1>2, <1>7 DEF Members
<1>9. ASSUME NEW e \in Members(s), e # s[p]
      PROVE  e \in Members(t)
  <2>1. PICK k \in 1..Len(s) : s[k] = e
    BY DEF Members
  <2>2. PICK i \in 1..Len(t) : h(i) = k
    BY <1>4, <1>9, <2>1
  <2> QED BY <1>2, <2>1, <2>2 DEF Members
<1> QED BY <1>5, <1>8, <1>9 DEF Kept

(* The closing line was never accepted, so it disturbs no order.           *)
LEMMA KeptClosed ==
    ASSUME NEW S, NEW s \in Seq(S), NEW acc \in Seq(S), NEW lost,
           Kept(s, acc, lost), CloseEntry \notin Members(acc),
           NEW t \in Seq(S), Len(t) = Len(s) + 1, NEW p \in 1..Len(t),
           t[p] = CloseEntry,
           \A i \in 1..Len(s) : s[i] = IF i < p THEN t[i] ELSE t[i + 1]
    PROVE  Kept(t, acc, lost)
<1> DEFINE h(i) == IF i < p THEN i ELSE i - 1
<1>1. Len(s) \in Nat /\ Len(t) \in Nat /\ Len(acc) \in Nat
  OBVIOUS
<1>2. ASSUME NEW i \in 1..Len(t), i # p
      PROVE  h(i) \in 1..Len(s) /\ t[i] = s[h(i)]
  <2>1. CASE i < p
    BY <1>1, <2>1
  <2>2. CASE i > p
    <3>1. i - 1 \in 1..Len(s) /\ ~(i - 1 < p) /\ (i - 1) + 1 = i
      BY <1>1, <2>2
    <3> QED BY <2>2, <3>1, SMTT(30)
  <2> QED BY <1>1, <1>2, <2>1, <2>2
<1>3. \A i, j \in 1..Len(t) : i < j /\ i # p /\ j # p => h(i) < h(j)
  BY <1>1
<1>4. \A i \in 1..Len(s) : \E k \in 1..Len(t) : t[k] = s[i]
  BY <1>1, SMTT(30)
<1> HIDE DEF h
<1>5. \A m \in 1..Len(acc) : t[p] # acc[m]
  BY DEF Members
<1>6. InOrder(t, acc)
  <2> SUFFICES ASSUME NEW i \in 1..Len(t), NEW j \in 1..Len(t),
                      NEW m \in 1..Len(acc), NEW n \in 1..Len(acc),
                      i < j, t[i] = acc[m], t[j] = acc[n]
               PROVE  m < n
    BY DEF InOrder
  <2>1. i # p /\ j # p
    BY <1>5
  <2>2. /\ h(i) \in 1..Len(s) /\ s[h(i)] = acc[m]
        /\ h(j) \in 1..Len(s) /\ s[h(j)] = acc[n] /\ h(i) < h(j)
    BY <1>2, <1>3, <2>1
  <2> QED BY <2>2 DEF Kept, InOrder
<1>7. Members(t) \subseteq Members(s) \cup {CloseEntry}
  <2>1. \A i \in 1..Len(t) : i = p \/ \E k \in 1..Len(s) : t[i] = s[k]
    BY <1>2
  <2>2. SUFFICES ASSUME NEW e, \E i \in 1..Len(t) : e = t[i]
                 PROVE  e \in Members(s) \cup {CloseEntry}
    BY DEF Members
  <2>3. PICK i \in 1..Len(t) : e = t[i]
    BY <2>2
  <2>4. CASE i = p
    BY <2>3, <2>4
  <2>5. CASE \E k \in 1..Len(s) : t[i] = s[k]
    BY <2>3, <2>5 DEF Members
  <2> QED BY <2>1, <2>4, <2>5
<1>8. Members(s) \subseteq Members(t)
  BY <1>4 DEF Members
<1> QED BY <1>6, <1>7, <1>8 DEF Kept

(* What an untouched log keeps.                                            *)
LEMMA OInvQuiet ==
    ASSUME OInv, UNCHANGED <<queue, entry, file, accepted, failed>>,
           entry # NoEntry => lpc' = "write",
           opc' \in {"new", "starting"} => opc \in {"new", "starting"}
    PROVE  OInv'
BY DEF OInv, Kept, Out, InFlight

(* What was accepted and is not the closing line.                          *)
LEMMA OutTyped ==
    ASSUME TypeOK
    PROVE  /\ InFlight \in Seq(Lines) /\ file \in Seq(Lines)
           /\ queue \in Seq(Lines) /\ accepted \in Seq(Lines)
           /\ Out \in Seq(Lines)
           /\ CloseEntry \notin Members(accepted)
<1>1. file \in Seq(Lines) /\ queue \in Seq(Lines) /\ accepted \in Seq(Lines)
  <2>1. \A s \in Seq(Loggable) : s \in Seq(Lines)
    BY DEF Lines
  <2> QED BY <2>1 DEF TypeOK, Lines
<1>2. InFlight \in Seq(Lines)
  <2>1. CASE entry = NoEntry
    BY <2>1 DEF InFlight
  <2>2. CASE entry # NoEntry
    <3>1. entry \in Lines
      BY <2>2 DEF TypeOK, Lines
    <3> QED BY <2>2, <3>1 DEF InFlight
  <2> QED BY <2>1, <2>2
<1>3. CloseEntry \notin Members(accepted)
  <2>1. CloseEntry \notin Loggable
    BY LogAssumption DEF Loggable
  <2>2. \A i \in 1..Len(accepted) : accepted[i] \in Loggable
    BY DEF TypeOK
  <2> QED BY <2>1, <2>2 DEF Members
<1> QED BY <1>1, <1>2, <1>3, JoinFacts DEF Out

(* addLog and the line of start(): a new entry, behind all others.         *)
LEMMA OInvEnqueue ==
    ASSUME IInv, OInv, NEW e \in Loggable, Enqueue(e), e \notin Members(accepted),
           opc' \notin {"new", "starting"}, UNCHANGED <<entry, file, failed>>
    PROVE  OInv'
<1>1. /\ queue' = Append(queue, e) /\ accepted' = Append(accepted, e)
      /\ lpc' = lpc \/ lpc = "waiting"
  BY DEF Enqueue, Signal, Wake
<1>2. /\ InFlight \in Seq(Lines) /\ file \in Seq(Lines)
      /\ queue \in Seq(Lines) /\ accepted \in Seq(Lines)
      /\ Out \in Seq(Lines) /\ e \in Lines
  BY OutTyped DEF IInv, Lines
<1>3. e # CloseEntry /\ e \notin failed
  <2>1. e # CloseEntry
    BY LogAssumption DEF Loggable
  <2> QED BY <2>1 DEF OInv
<1>4. Out' = Append(Out, e)
  <2>1. \A a, b, c \in Seq(Lines) :
           a \o b \o Append(c, e) = Append(a \o b \o c, e)
    BY <1>2, SMTT(60)
  <2>2. Out' = file \o InFlight \o Append(queue, e)
    BY <1>1 DEF Out, InFlight
  <2>3. file \o InFlight \o Append(queue, e) = Append(file \o InFlight \o queue, e)
    BY <1>2, <2>1, ZenonT(40)
  <2> QED BY <2>2, <2>3 DEF Out
<1>5. Kept(Append(Out, e), Append(accepted, e), failed)
  BY <1>2, <1>3, KeptAppend DEF OInv
<1>6. Members(accepted') = Members(accepted) \cup {e}
  BY <1>1, <1>2, AppendMembers
<1> QED BY <1>1, <1>4, <1>5, <1>6 DEF OInv

(* start() and stop().                                                     *)
LEMMA OInvOwner ==
    ASSUME IInv, OInv, Owner
    PROVE  OInv'
<1>1. CASE StartLine
  <2>1. accepted = <<>>
    BY <1>1 DEF StartLine, OInv
  <2>2. StartEntry \in Loggable /\ StartEntry \notin Members(accepted)
    BY <2>1 DEF Loggable, Members
  <2> QED BY <1>1, <2>2, OInvEnqueue DEF StartLine
<1>2. CASE StartFlag \/ StartThread \/ StopFlag \/ StopSignal \/ Join
  <2>1. entry # NoEntry => lpc' = "write"
    BY <1>2 DEF OInv, IInv, NoThread, StartFlag, StartThread, StopFlag,
                StopSignal, StopWakes, Wake, Join
  <2> QED
    BY <1>2, <2>1, OInvQuiet DEF StartFlag, StartThread, StopFlag, StopSignal,
                                 Join
<1> QED BY <1>1, <1>2 DEF Owner

(* The log thread takes an entry: it goes from the queue into flight.      *)
LEMMA OInvTake ==
    ASSUME IInv, OInv, TakeEntry
    PROVE  OInv'
<1>1. /\ UNCHANGED <<opc, file, accepted, failed>>
      /\ lpc' = "write" /\ entry' = Head(queue) /\ queue' = Tail(queue)
      /\ queue # <<>> /\ entry = NoEntry
  BY DEF TakeEntry, NextEntry, OInv
<1>2. file \in Seq(Lines) /\ queue \in Seq(Lines)
  BY OutTyped DEF IInv
<1>3. entry' # NoEntry
  <2>1. Head(queue) \in Loggable
    BY <1>1 DEF IInv, TypeOK
  <2> QED BY <1>1, <2>1, LogAssumption DEF Loggable
<1>4. InFlight = <<>> /\ InFlight' = <<Head(queue)>>
  BY <1>1, <1>3 DEF InFlight
<1>5. \A a, q \in Seq(Lines) :
         q # <<>> => a \o <<Head(q)>> \o Tail(q) = a \o <<>> \o q
  OBVIOUS
<1>6. Out' = Out
  BY <1>1, <1>2, <1>4, <1>5 DEF Out
<1> QED BY <1>1, <1>6 DEF OInv

(* ... and writes it, or loses it when the file cannot be opened.          *)
LEMMA OInvWrite ==
    ASSUME IInv, OInv, WriteEntry
    PROVE  OInv'
<1>1. /\ UNCHANGED <<opc, queue, accepted>> /\ entry' = NoEntry
  BY DEF WriteEntry
<1>2. /\ file \in Seq(Lines) /\ queue \in Seq(Lines) /\ accepted \in Seq(Lines)
      /\ Out \in Seq(Lines)
  BY OutTyped DEF IInv
<1>3. InFlight' = <<>>
  BY <1>1 DEF InFlight
<1>4. CASE ~HasText
  <2>1. entry = NoEntry /\ UNCHANGED <<file, failed>>
    BY <1>4 DEF WriteEntry, HasText
  <2> QED BY <1>1, <2>1 DEF OInv, Kept, Out, InFlight
<1>5. CASE HasText
  <2>1. WriteLine(entry) /\ entry # NoEntry
    BY <1>5 DEF WriteEntry, HasText
  <2>2. InFlight = <<entry>> /\ entry \in Loggable /\ entry \in Lines
    BY <2>1 DEF InFlight, IInv, TypeOK, Lines
  <2>3. CASE file' = Append(file, entry) /\ failed' = failed
    <3>1. \A a, q \in Seq(Lines) : \A e \in Lines :
             Append(a, e) \o <<>> \o q = a \o <<e>> \o q
      OBVIOUS
    <3>2. Out' = Out
      BY <1>1, <1>2, <1>3, <2>2, <2>3, <3>1 DEF Out
    <3> QED BY <1>1, <2>3, <3>2 DEF OInv
  <2>4. CASE file' = file /\ failed' = failed \cup {entry}
    <3> DEFINE t == file \o <<>> \o queue
               p == Len(file) + 1
    <3>1. Out' = t
      BY <1>1, <1>3, <2>4 DEF Out
    <3>2. /\ <<>> \in Seq(Lines) /\ <<entry>> \in Seq(Lines)
          /\ Len(<<>>) = 0 /\ Len(<<entry>>) = 1 /\ <<entry>>[1] = entry
          /\ Len(file) \in Nat /\ Len(queue) \in Nat
      BY <1>2, <2>2
    <3>3. /\ t \in Seq(Lines) /\ Len(t) = Len(file) + Len(queue)
          /\ \A i \in 1..Len(file) : t[i] = file[i]
          /\ \A i \in 1..Len(queue) : t[Len(file) + i] = queue[i]
      BY <1>2, <3>2, JoinFacts
    <3>4. /\ Out = file \o <<entry>> \o queue
          /\ Len(Out) = Len(file) + 1 + Len(queue)
          /\ \A i \in 1..Len(file) : Out[i] = file[i]
          /\ Out[Len(file) + 1] = entry
          /\ \A i \in 1..Len(queue) : Out[Len(file) + 1 + i] = queue[i]
      <4>1. Out = file \o <<entry>> \o queue
        BY <2>2 DEF Out
      <4> QED BY <1>2, <2>2, <4>1, JoinOne
    <3>5. p \in 1..Len(Out) /\ Out[p] = entry
      BY <3>2, <3>4
    <3> HIDE DEF t
    <3>6. ASSUME NEW i \in 1..Len(t)
          PROVE  t[i] = IF i < p THEN Out[i] ELSE Out[i + 1]
      <4>1. CASE i < p
        <5>1. i \in 1..Len(file)
          BY <3>2, <4>1
        <5> QED BY <3>3, <3>4, <4>1, <5>1
      <4>2. CASE ~(i < p)
        <5>1. i - Len(file) \in 1..Len(queue) /\ Len(file) + (i - Len(file)) = i
          BY <3>2, <3>3, <4>2
        <5>2. Len(file) + 1 + (i - Len(file)) = i + 1
          BY <3>2
        <5> QED BY <3>3, <3>4, <4>2, <5>1, <5>2, SMTT(30)
      <4> QED BY <4>1, <4>2
    <3>7. entry # CloseEntry
      BY <2>2, LogAssumption DEF Loggable
    <3>8. Kept(t, accepted, failed \cup {entry})
      <4>1. Len(t) = Len(Out) - 1
        BY <3>2, <3>3, <3>4
      <4>2. Kept(t, accepted, failed \cup {Out[p]})
        BY <1>2, <3>3, <3>5, <3>6, <3>7, <4>1, KeptWithout DEF OInv
      <4> QED BY <3>5, <4>2
    <3>9. entry \in Members(accepted)
      BY <3>5, <3>7 DEF OInv, Kept, Members
    <3> QED BY <1>1, <2>4, <3>1, <3>8, <3>9 DEF OInv
  <2> QED BY <2>1, <2>3, <2>4 DEF WriteLine
<1> QED BY <1>4, <1>5

(* The closing line goes between the file and what is still queued, or is  *)
(* refused.                                                                *)
LEMMA OInvClose ==
    ASSUME IInv, OInv, WriteClosed
    PROVE  OInv'
<1>1. /\ UNCHANGED <<opc, queue, accepted, entry>>
      /\ lpc = "closing" /\ WriteLine(CloseEntry)
  BY DEF WriteClosed
<1>2. /\ file \in Seq(Lines) /\ queue \in Seq(Lines) /\ accepted \in Seq(Lines)
      /\ Out \in Seq(Lines) /\ CloseEntry \notin Members(accepted)
  BY OutTyped DEF IInv
<1>3. entry = NoEntry /\ InFlight = <<>> /\ InFlight' = <<>>
  BY <1>1 DEF OInv, InFlight
<1>4. CASE file' = file /\ failed' = failed \cup {CloseEntry}
  <2>1. Members(accepted) \ failed' = Members(accepted) \ failed
    BY <1>2, <1>4
  <2>2. Out' = Out
    BY <1>1, <1>3, <1>4 DEF Out
  <2> QED BY <1>1, <1>3, <1>4, <2>1, <2>2 DEF OInv, Kept
<1>5. CASE file' = Append(file, CloseEntry) /\ failed' = failed
  <2> DEFINE t == Append(file, CloseEntry) \o <<>> \o queue
             p == Len(file) + 1
  <2>1. Out' = t
    BY <1>1, <1>3, <1>5 DEF Out
  <2>2. /\ <<>> \in Seq(Lines) /\ Len(<<>>) = 0
        /\ Append(file, CloseEntry) \in Seq(Lines)
        /\ Len(Append(file, CloseEntry)) = Len(file) + 1
        /\ Append(file, CloseEntry)[p] = CloseEntry
        /\ \A i \in 1..Len(file) : Append(file, CloseEntry)[i] = file[i]
        /\ Len(file) \in Nat /\ Len(queue) \in Nat
    BY <1>2 DEF Lines
  <2>3. /\ t \in Seq(Lines) /\ Len(t) = Len(file) + 1 + Len(queue)
        /\ \A i \in 1..(Len(file) + 1) : t[i] = Append(file, CloseEntry)[i]
        /\ \A i \in 1..Len(queue) : t[Len(file) + 1 + i] = queue[i]
    <3>1. PICK a, b, q : a = Append(file, CloseEntry) /\ b = <<>> /\ q = queue
      OBVIOUS
    <3>2. a \in Seq(Lines) /\ b \in Seq(Lines) /\ q \in Seq(Lines)
      BY <1>2, <2>2, <3>1
    <3>3. /\ a \o b \o q \in Seq(Lines)
          /\ Len(a \o b \o q) = Len(a) + Len(b) + Len(q)
          /\ \A i \in 1..Len(a) : (a \o b \o q)[i] = a[i]
          /\ \A i \in 1..Len(q) : (a \o b \o q)[Len(a) + Len(b) + i] = q[i]
      <4>0. PICK S : S = Lines
        OBVIOUS
      <4>1. a \in Seq(S) /\ b \in Seq(S) /\ q \in Seq(S)
        BY <3>2, <4>0
      <4>2. /\ a \o b \o q \in Seq(S)
            /\ Len(a \o b \o q) = Len(a) + Len(b) + Len(q)
            /\ \A i \in 1..Len(a) : (a \o b \o q)[i] = a[i]
            /\ \A i \in 1..Len(q) :
                  (a \o b \o q)[Len(a) + Len(b) + i] = q[i]
        BY <4>1
      <4> QED BY <4>0, <4>2
    <3>4. t = a \o b \o q
      BY <3>1
    <3> HIDE DEF t
    <3>5. Len(a) = Len(file) + 1 /\ Len(a) + Len(b) = Len(file) + 1
      BY <2>2, <3>1
    <3> QED BY <2>2, <3>1, <3>2, <3>3, <3>4, <3>5
  <2>4. /\ Len(Out) = Len(file) + Len(queue)
        /\ \A i \in 1..Len(file) : Out[i] = file[i]
        /\ \A i \in 1..Len(queue) : Out[Len(file) + i] = queue[i]
    BY <1>2, <1>3, <2>2, JoinFacts DEF Out
  <2>5. p \in 1..Len(t) /\ t[p] = CloseEntry
    BY <2>2, <2>3
  <2> HIDE DEF t
  <2>6. ASSUME NEW i \in 1..Len(Out)
        PROVE  Out[i] = IF i < p THEN t[i] ELSE t[i + 1]
    <3>1. CASE i < p
      <4>1. i \in 1..Len(file) /\ i \in 1..(Len(file) + 1)
        BY <2>2, <3>1
      <4> QED BY <2>2, <2>3, <2>4, <3>1, <4>1
    <3>2. CASE ~(i < p)
      <4>1. i - Len(file) \in 1..Len(queue) /\ Len(file) + (i - Len(file)) = i
        BY <2>2, <2>4, <3>2
      <4>2. Len(file) + 1 + (i - Len(file)) = i + 1
        BY <2>2
      <4> QED BY <2>3, <2>4, <3>2, <4>1, <4>2
    <3> QED BY <3>1, <3>2
  <2>7. Len(t) = Len(Out) + 1
    BY <2>2, <2>3, <2>4
  <2>8. Kept(t, accepted, failed)
    BY <1>2, <2>3, <2>5, <2>6, <2>7, KeptClosed, ZenonT(40) DEF OInv
  <2> QED BY <1>1, <1>3, <1>5, <2>1, <2>8 DEF OInv
<1> QED BY <1>1, <1>4, <1>5 DEF WriteLine

(* Every step keeps OInv, beside IInv.                                     *)
LEMMA OInvNext == IInv /\ OInv /\ [Next]_vars => OInv'
<1> SUFFICES ASSUME IInv, OInv, [Next]_vars PROVE OInv'
  OBVIOUS
<1>1. CASE UNCHANGED vars
  BY <1>1, OInvQuiet DEF vars, OInv
<1>2. CASE SpuriousWake \/ CheckStarted \/ DecideToWait \/ Wait \/ TakeNothing
  <2>1. entry # NoEntry => lpc = "write"
    BY DEF OInv
  <2> QED
    BY <1>2, <2>1, OInvQuiet DEF SpuriousWake, CheckStarted, DecideToWait, Wait,
                                 TakeNothing
<1>3. ASSUME NEW e \in Entries, AddLog(e) PROVE OInv'
  <2>1. e \in Loggable /\ e \notin Members(accepted) /\ Enqueue(e)
    BY <1>3 DEF AddLog, Loggable
  <2> QED BY <1>3, <2>1, OInvEnqueue DEF AddLog
<1> QED
  BY <1>1, <1>2, <1>3, OInvOwner, OInvTake, OInvWrite, OInvClose
     DEF Next, LogThread

(* The lines of the file, the entry in flight and the queue are what       *)
(* addLog accepted and the file system did not refuse, each once and in    *)
(* that order, whatever the interleaving of callers, log thread and stop().*)
THEOREM NothingIsLost == Spec => []NothingLostOrReordered
<1>1. Init => OInv
  <2> SUFFICES ASSUME Init PROVE OInv
    OBVIOUS
  <2>1. Out = <<>> /\ accepted = <<>> /\ failed = {} /\ entry = NoEntry
    BY DEF Init, Out, InFlight
  <2>2. Members(<<>>) = {}
    BY DEF Members
  <2> QED BY <2>1, <2>2 DEF OInv, Kept, InOrder
<1>2. IInv /\ OInv => NothingLostOrReordered
  <2> SUFFICES ASSUME IInv, OInv PROVE NothingLostOrReordered
    OBVIOUS
  <2>1. Out \in Seq(Lines) /\ accepted \in Seq(Lines)
    BY OutTyped DEF IInv
  <2>2. DOMAIN Out = 1..Len(Out) /\ DOMAIN accepted = 1..Len(accepted)
    BY <2>1
  <2> QED BY <2>2 DEF OInv, Kept, InOrder, NothingLostOrReordered, Out
<1> QED BY <1>1, <1>2, OInvNext, IInvAlways, PTL DEF Spec

=============================================================================
