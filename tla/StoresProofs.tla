----------------------------- MODULE StoresProofs -----------------------------
(***************************************************************************)
(* What the components of Stores promise, for any number of sessions,      *)
(* requests and work items, and for any text.                              *)
(***************************************************************************)
EXTENDS Stores, TLAPS, SequenceTheorems, FiniteSetTheorems, WellFoundedInduction

\* What is appended is the last.
LEMMA Appended ==
    ASSUME NEW S, NEW q \in Seq(S), NEW e \in S
    PROVE  /\ Append(q, e) \in Seq(S) /\ Append(q, e) # << >> /\ Len(q) \in Nat
           /\ Len(Append(q, e)) = Len(q) + 1 /\ Append(q, e)[Len(q) + 1] = e
           /\ \A i \in 1..Len(q) : Append(q, e)[i] = q[i]
           /\ q = << >> => Append(q, e) = << e >>
<1>1. /\ Append(q, e) \in Seq(S) /\ Len(Append(q, e)) = Len(q) + 1 /\ Append(q, e)[Len(q) + 1] = e
      /\ \A i \in 1..Len(q) : Append(q, e)[i] = q[i]
  BY AppendProperties
<1>2. Len(q) \in Nat
  BY LenProperties
<1>3. Append(q, e) # << >>
  BY <1>1, <1>2
<1>4. q = << >> => Append(q, e) = << e >>
  OBVIOUS
<1> QED
  BY <1>1, <1>2, <1>3, <1>4

-----------------------------------------------------------------------------
(***************************************************************************)
(* Session histories.                                                      *)
(*                                                                         *)
(* What was cut off a history does not come back: as long as the requests  *)
(* of a session do not overlap, no turn of a session that has loaded its   *)
(* history is there while the history is reverted, so that no save can     *)
(* write a turn that was removed; a fork has a history its parent had.     *)
(***************************************************************************)
HistoryTyped ==
    /\ historyTurn \in [History!Requests -> History!Turn]
    /\ historySession \in [HistorySessions -> History!Row]
    /\ historyCall \in History!Calls
    /\ historyReverted \in [HistorySessions -> SUBSET History!Requests]
    /\ historyOverlapped \subseteq HistorySessions
    /\ historyVersions \in [HistorySessions -> SUBSET History!Messages]
    /\ \A r \in History!Requests : historyTurn[r].pc # "new" => historyTurn[r].of \in HistorySessions

\* A row has messages its session has had, and one that was reverted had some.
HistoryKnown ==
    \A s \in HistorySessions :
        /\ historySession[s].exists => historySession[s].messages \in historyVersions[s]
        /\ historyVersions[s] = {} => historyReverted[s] = {}
        /\ ~historySession[s].exists => historySession[s].messages = << >>

\* A turn that has not been saved is in no history yet.
HistoryFresh ==
    \A r \in History!Requests : historyTurn[r].pc \in {"new", "loaded"} =>
        /\ \A s \in HistorySessions : r \notin History!ToSet(historySession[s].messages) /\ r \notin historyReverted[s]
        /\ \A q \in History!Requests : r \notin History!ToSet(historyTurn[q].messages)
        /\ historyCall.pc # "idle" => r \notin History!ToSet(historyCall.copy)

HistoryCut ==
    /\ \A s \in HistorySessions \ historyOverlapped :
          /\ History!ToSet(historySession[s].messages) \cap historyReverted[s] = {}
          /\ \A r \in History!Requests : historyTurn[r].pc = "loaded" /\ historyTurn[r].of = s =>
                /\ History!ToSet(historyTurn[r].messages) \cap historyReverted[s] = {}
                /\ ~(historyCall.pc = "revert" /\ historyCall.of = s)
    /\ historyCall.pc = "copy" => historyReverted[historyCall.of] = {}

HistoryForks ==
    historyCall.pc \in {"fork", "copy"} =>
        \E old \in historyVersions[historyCall.parent] : History!IsPrefix(historyCall.copy, old)

HistoryInv == HistoryTyped /\ HistoryKnown /\ HistoryFresh /\ HistoryCut /\ HistoryForks

\* The turns of a history.
LEMMA HistoryEmpty == History!ToSet(<< >>) = {} /\ << >> \in History!Messages
BY DEF History!ToSet, History!Messages

LEMMA HistoryAppend ==
    ASSUME NEW q \in History!Messages, NEW r \in History!Requests
    PROVE  Append(q, r) \in History!Messages /\ History!ToSet(Append(q, r)) \subseteq History!ToSet(q) \cup {r}
<1>1. /\ Append(q, r) \in Seq(History!Requests) /\ q \in Seq(History!Requests) /\ Len(q) \in Nat
      /\ Len(Append(q, r)) = Len(q) + 1 /\ Append(q, r)[Len(q) + 1] = r
      /\ \A i \in 1..Len(q) : Append(q, r)[i] = q[i]
  BY Appended DEF History!Messages
<1>2. DOMAIN q = 1..Len(q) /\ DOMAIN Append(q, r) = 1..Len(q) + 1
  BY <1>1, LenProperties
<1>3. ASSUME NEW i \in 1..Len(q) + 1 PROVE Append(q, r)[i] \in History!ToSet(q) \cup {r}
  <2>1. CASE i \in 1..Len(q)
    BY <1>1, <1>2, <2>1 DEF History!ToSet
  <2>2. CASE i = Len(q) + 1
    BY <1>1, <2>2
  <2> QED
    BY <1>1, <2>1, <2>2
<1> QED
  BY <1>1, <1>2, <1>3 DEF History!ToSet, History!Messages

LEMMA HistoryPrefix ==
    ASSUME NEW q \in History!Messages, NEW n \in 0..Len(q)
    PROVE  /\ SubSeq(q, 1, n) \in History!Messages
           /\ History!ToSet(SubSeq(q, 1, n)) \subseteq History!ToSet(q)
           /\ History!IsPrefix(SubSeq(q, 1, n), q)
<1> DEFINE p == SubSeq(q, 1, n)
<1>1. q \in Seq(History!Requests) /\ Len(q) \in Nat /\ DOMAIN q = 1..Len(q) /\ n \in Int /\ n <= Len(q) /\ n >= 0
  BY LenProperties DEF History!Messages
<1>2. \A i \in 1..n : q[i] \in History!Requests
  BY <1>1, ElementOfSeq
<1>3. p \in Seq(History!Requests) /\ Len(p) = n /\ \A i \in 1..n : p[i] = q[i]
  <2>1. /\ p \in Seq(History!Requests) /\ Len(p) = IF 1 <= n THEN n - 1 + 1 ELSE 0
        /\ \A i \in 1..(n - 1 + 1) : p[i] = q[1 + i - 1]
    BY <1>1, <1>2, SubSeqProperties
  <2> QED
    BY <1>1, <2>1
<1> HIDE DEF p
<1>4. DOMAIN p = 1..n
  BY <1>3, LenProperties
<1>5. History!ToSet(p) \subseteq History!ToSet(q)
  BY <1>1, <1>3, <1>4 DEF History!ToSet
<1>6. History!IsPrefix(p, q)
  <2> DEFINE pp == SubSeq(p, 1, n)
  <2>1. /\ pp \in Seq(History!Requests) /\ Len(pp) = IF 1 <= n THEN n - 1 + 1 ELSE 0
        /\ \A i \in 1..(n - 1 + 1) : pp[i] = p[1 + i - 1]
    <3>1. \A i \in 1..n : p[i] \in History!Requests
      BY <1>2, <1>3
    <3> QED
      BY <1>1, <3>1, SubSeqProperties
  <2>2. Len(pp) = n /\ \A i \in 1..n : pp[i] = p[i]
    BY <1>1, <2>1
  <2> HIDE DEF pp
  <2>3. pp = p
    BY <1>3, <2>1, <2>2, SeqEqual
  <2> QED
    BY <1>1, <1>3, <2>3 DEF History!IsPrefix, p, pp
<1> QED
  BY <1>3, <1>5, <1>6 DEF p, History!Messages

LEMMA HistoryInit == History!Init => HistoryInv
BY HistoryEmpty DEF History!Init, HistoryInv, HistoryTyped, HistoryKnown, HistoryFresh, HistoryCut, HistoryForks,
    History!Turn, History!NewTurn, History!Row, History!NoRow, History!Calls, History!Idle, History!Nobody

\* What every step needs to know of the types.
LEMMA HistoryTypes ==
    ASSUME HistoryInv
    PROVE  /\ \A r \in History!Requests : historyTurn[r].messages \in History!Messages
           /\ \A s \in HistorySessions : historySession[s].messages \in History!Messages
           /\ historyCall.pc \in {"idle", "fork", "copy", "revert"}
           /\ historyCall.pc # "idle" =>
                 /\ historyCall.of \in HistorySessions /\ historyCall.parent \in HistorySessions
                 /\ historyCall.copy \in History!Messages
           /\ historyCall.pc = "idle" => historyCall = History!Idle
BY DEF HistoryInv, HistoryTyped, History!Turn, History!Row, History!Calls, History!Idle

\* A request loads its history: it is cut, unless the session is being reverted.
LEMMA HistoryLoad ==
    ASSUME HistoryInv, NEW r \in History!Requests, NEW s \in HistorySessions, History!Load(r, s)
    PROVE  HistoryInv'
<1> DEFINE new == [pc |-> "loaded", of |-> s, messages |-> historySession[s].messages]
<1>1. /\ historyTurn[r].pc = "new" /\ historyTurn' = [historyTurn EXCEPT ![r] = new]
      /\ historyOverlapped' = IF historyCall.pc = "revert" /\ historyCall.of = s THEN historyOverlapped \cup {s} ELSE historyOverlapped
      /\ historySession' = historySession /\ historyCall' = historyCall /\ historyReverted' = historyReverted
      /\ historyVersions' = historyVersions
  BY DEF History!Load, History!At
<1>2. new \in History!Turn /\ new.pc = "loaded" /\ new.of = s /\ new.messages = historySession[s].messages
  BY HistoryTypes DEF History!Turn
<1> HIDE DEF new
<1>3. historyTurn' \in [History!Requests -> History!Turn] /\ historyTurn'[r] = new
      /\ \A q \in History!Requests \ {r} : historyTurn'[q] = historyTurn[q]
  BY <1>1, <1>2 DEF HistoryInv, HistoryTyped
<1>4. HistoryTyped'
  <2>1. \A q \in History!Requests : historyTurn'[q].pc # "new" => historyTurn'[q].of \in HistorySessions
    BY <1>2, <1>3 DEF HistoryInv, HistoryTyped
  <2> QED
    BY <1>1, <1>3, <2>1 DEF HistoryInv, HistoryTyped
<1>5. HistoryKnown' /\ HistoryForks'
  BY <1>1 DEF HistoryInv, HistoryKnown, HistoryForks
<1>6. HistoryFresh'
  BY <1>1, <1>2, <1>3 DEF HistoryInv, HistoryFresh
<1>7. HistoryCut'
  BY <1>1, <1>2, <1>3 DEF HistoryInv, HistoryCut
<1> QED
  BY <1>4, <1>5, <1>6, <1>7 DEF HistoryInv

\* A request ends, as it should or not, without a trace in the tables but for a question.
LEMMA HistoryEnds ==
    ASSUME HistoryInv, historyTurn' \in [History!Requests -> History!Turn],
           \A q \in History!Requests :
               \/ historyTurn'[q] = historyTurn[q]
               \/ historyTurn[q].pc # "new" /\ historyTurn'[q].pc = "done" /\ historyTurn'[q].of = historyTurn[q].of
                  /\ (historyTurn'[q].messages = << >> \/ historyTurn'[q].messages = historyTurn[q].messages),
           historySession' \in [HistorySessions -> History!Row],
           \A s \in HistorySessions :
               /\ historySession'[s].exists = historySession[s].exists
               /\ historySession'[s].messages = historySession[s].messages,
           historyCall' = historyCall \/ historyCall' = History!Idle,
           UNCHANGED << historyReverted, historyOverlapped, historyVersions >>
    PROVE  HistoryInv'
<1>1. HistoryTyped'
  <2>1. \A r \in History!Requests : historyTurn'[r].pc # "new" => historyTurn'[r].of \in HistorySessions
    BY DEF HistoryInv, HistoryTyped
  <2> QED
    BY <2>1 DEF HistoryInv, HistoryTyped, History!Calls
<1>2. HistoryKnown'
  BY DEF HistoryInv, HistoryKnown
<1>3. historyCall'.pc # "idle" => historyCall' = historyCall
  BY DEF History!Idle
<1>4. HistoryForks'
  <2>1. historyCall'.pc \in {"fork", "copy"} => historyCall' = historyCall
    BY <1>3
  <2> QED
    BY <2>1 DEF HistoryInv, HistoryForks
<1>5. HistoryFresh'
  BY <1>3, HistoryEmpty DEF HistoryInv, HistoryFresh
<1>6. HistoryCut'
  <2>1. historyCall'.pc \in {"copy", "revert"} => historyCall' = historyCall
    BY <1>3
  <2>2. ASSUME NEW s \in HistorySessions \ historyOverlapped
        PROVE  /\ History!ToSet(historySession'[s].messages) \cap historyReverted[s] = {}
               /\ \A r \in History!Requests : historyTurn'[r].pc = "loaded" /\ historyTurn'[r].of = s =>
                     /\ History!ToSet(historyTurn'[r].messages) \cap historyReverted[s] = {}
                     /\ ~(historyCall'.pc = "revert" /\ historyCall'.of = s)
    <3>1. History!ToSet(historySession[s].messages) \cap historyReverted[s] = {}
      BY DEF HistoryInv, HistoryCut
    <3>2. ASSUME NEW r \in History!Requests, historyTurn'[r].pc = "loaded", historyTurn'[r].of = s
          PROVE  /\ History!ToSet(historyTurn'[r].messages) \cap historyReverted[s] = {}
                 /\ ~(historyCall'.pc = "revert" /\ historyCall'.of = s)
      <4>1. historyTurn'[r] = historyTurn[r]
        BY <3>2
      <4> QED
        BY <2>1, <3>2, <4>1 DEF HistoryInv, HistoryCut
    <3> QED
      BY <3>1, <3>2
  <2>3. historyCall'.pc = "copy" => historyReverted[historyCall'.of] = {}
    BY <2>1 DEF HistoryInv, HistoryCut
  <2> QED
    BY <2>2, <2>3 DEF HistoryCut
<1> QED
  BY <1>1, <1>2, <1>4, <1>5, <1>6 DEF HistoryInv

LEMMA HistoryPersistQuestion ==
    ASSUME HistoryInv, NEW r \in History!Requests, History!PersistQuestion(r)
    PROVE  HistoryInv'
<1>0. historyTurn[r] \in History!Turn /\ historyTurn \in [History!Requests -> History!Turn]
      /\ historySession \in [HistorySessions -> History!Row]
  BY DEF HistoryInv, HistoryTyped
<1>1. historyTurn' \in [History!Requests -> History!Turn] /\ historyTurn'[r].pc = "done" /\ historyTurn[r].pc # "new"
      /\ historyTurn'[r].of = historyTurn[r].of /\ historyTurn'[r].messages = historyTurn[r].messages
      /\ \A q \in History!Requests \ {r} : historyTurn'[q] = historyTurn[q]
  BY <1>0 DEF History!PersistQuestion, History!Turn, History!At
<1>2. /\ historySession' \in [HistorySessions -> History!Row]
      /\ \A s \in HistorySessions :
            /\ historySession'[s].exists = historySession[s].exists
            /\ historySession'[s].messages = historySession[s].messages
  <2> DEFINE s == historyTurn[r].of
             n == IF historySession[s].exists THEN r ELSE historySession[s].question
  <2>1. historySession' = [historySession EXCEPT ![s].question = n]
    BY DEF History!PersistQuestion
  <2>2. CASE s \in HistorySessions
    <3>1. n \in History!Requests \cup {History!Nobody}
      BY <1>0, <2>2 DEF History!Row
    <3> HIDE DEF n, s
    <3> QED
      BY <1>0, <2>1, <2>2, <3>1 DEF History!Row
  <2>3. CASE s \notin HistorySessions
    <3>1. historySession' = historySession
      BY <1>0, <2>1, <2>3
    <3> QED
      BY <1>0, <3>1
  <2> QED
    BY <2>2, <2>3
<1>3. UNCHANGED << historyCall, historyReverted, historyOverlapped, historyVersions >>
  BY DEF History!PersistQuestion
<1> QED
  BY <1>1, <1>2, <1>3, HistoryEnds

LEMMA HistoryFail ==
    ASSUME HistoryInv, NEW r \in History!Requests, History!Fail(r)
    PROVE  HistoryInv'
<1>0. historyTurn[r] \in History!Turn /\ historyTurn \in [History!Requests -> History!Turn]
      /\ historySession \in [HistorySessions -> History!Row]
  BY DEF HistoryInv, HistoryTyped
<1>1. historyTurn' \in [History!Requests -> History!Turn] /\ historyTurn'[r].pc = "done" /\ historyTurn[r].pc # "new"
      /\ historyTurn'[r].of = historyTurn[r].of /\ historyTurn'[r].messages = << >>
      /\ \A q \in History!Requests \ {r} : historyTurn'[q] = historyTurn[q]
  BY <1>0, HistoryEmpty DEF History!Fail, History!Turn, History!InFlight
<1>2. UNCHANGED << historySession, historyCall, historyReverted, historyOverlapped, historyVersions >>
  BY DEF History!Fail
<1> QED
  BY <1>0, <1>1, <1>2, HistoryEnds

LEMMA HistoryRestart ==
    ASSUME HistoryInv, History!Restart
    PROVE  HistoryInv'
<1>0. historyTurn \in [History!Requests -> History!Turn] /\ historySession \in [HistorySessions -> History!Row]
  BY DEF HistoryInv, HistoryTyped
<1>1. ASSUME NEW q \in History!Requests
      PROVE  /\ historyTurn'[q] \in History!Turn
             /\ \/ historyTurn'[q] = historyTurn[q]
                \/ historyTurn[q].pc # "new" /\ historyTurn'[q].pc = "done" /\ historyTurn'[q].of = historyTurn[q].of
                   /\ historyTurn'[q].messages = << >>
  <2> DEFINE new == [historyTurn[q] EXCEPT !.pc = "done", !.messages = << >>]
  <2>1. historyTurn[q] \in History!Turn
    BY <1>0
  <2>2. new \in History!Turn /\ new.pc = "done" /\ new.of = historyTurn[q].of /\ new.messages = << >>
    BY <2>1, HistoryEmpty DEF History!Turn
  <2>3. (historyTurn'[q] = new /\ historyTurn[q].pc # "new") \/ historyTurn'[q] = historyTurn[q]
    BY DEF History!Restart, History!InFlight
  <2> HIDE DEF new
  <2> QED
    BY <2>1, <2>2, <2>3
<1>2. historyTurn' = [q \in History!Requests |-> historyTurn'[q]]
  BY DEF History!Restart
<1>3. historyTurn' \in [History!Requests -> History!Turn]
  BY <1>1, <1>2
<1>4. UNCHANGED << historySession, historyReverted, historyOverlapped, historyVersions >> /\ historyCall' = History!Idle
  BY DEF History!Restart
<1> QED
  BY <1>0, <1>1, <1>3, <1>4, HistoryEnds

\* A step that writes a row: the row and the messages the session has had, the requests, the
\* call, what is cut off, and how they fit.
HistoryRowGoes(s, row) ==
    /\ historySession' = [historySession EXCEPT ![s] = row]
    /\ historyVersions' \in [HistorySessions -> SUBSET History!Messages]
    /\ row.exists => row.messages \in historyVersions'[s]
    /\ ~row.exists => row.messages = << >>
    /\ \A t \in HistorySessions : historyVersions[t] \subseteq historyVersions'[t]

HistoryTurnsGo ==
    /\ historyTurn' \in [History!Requests -> History!Turn]
    /\ \A q \in History!Requests :
          \/ historyTurn'[q] = historyTurn[q]
          \/ historyTurn[q].pc = "loaded" /\ historyTurn'[q].pc \in {"asked", "done"}
             /\ historyTurn'[q].of = historyTurn[q].of /\ historyTurn'[q].messages = << >>

HistoryCallGoes ==
    /\ historyCall' \in History!Calls
    /\ historyCall'.pc # "idle" => historyCall.pc # "idle" /\ historyCall'.copy = historyCall.copy
    /\ historyCall'.pc = "revert" => historyCall' = historyCall
    /\ historyCall'.pc \in {"fork", "copy"} =>
          historyCall.pc \in {"fork", "copy"} /\ historyCall'.parent = historyCall.parent
    /\ historyCall'.pc = "copy" => historyReverted'[historyCall'.of] = {}

HistoryCutsGo(s) ==
    /\ historyOverlapped' = historyOverlapped
    /\ historyReverted' \in [HistorySessions -> SUBSET History!Requests]
    /\ \A t \in HistorySessions \ {s} : historyReverted'[t] = historyReverted[t]
    /\ historyReverted'[s] \subseteq historyReverted[s] \cup History!ToSet(historySession[s].messages)
    /\ historyReverted'[s] # {} => historyVersions'[s] # {}

HistoryFits(s, row) ==
    /\ \A q \in History!Requests : historyTurn'[q].pc \in {"new", "loaded"} => q \notin History!ToSet(row.messages)
    /\ s \notin historyOverlapped =>
           /\ History!ToSet(row.messages) \cap historyReverted'[s] = {}
           /\ \A r \in History!Requests : historyTurn'[r].pc = "loaded" /\ historyTurn'[r].of = s =>
                 historyReverted'[s] \subseteq historyReverted[s]

\* What the row holds was saved before or is saved now, and is not cut off.
LEMMA HistoryWrites ==
    ASSUME HistoryInv, NEW s \in HistorySessions, NEW row \in History!Row,
           HistoryRowGoes(s, row), HistoryTurnsGo, HistoryCallGoes, HistoryCutsGo(s), HistoryFits(s, row)
    PROVE  HistoryInv'
<1> USE DEF HistoryRowGoes, HistoryTurnsGo, HistoryCallGoes, HistoryCutsGo, HistoryFits
<1>0. /\ historySession' \in [HistorySessions -> History!Row] /\ historySession'[s] = row
      /\ \A t \in HistorySessions \ {s} : historySession'[t] = historySession[t]
  BY DEF HistoryInv, HistoryTyped
<1>1. HistoryTyped'
  <2>1. \A r \in History!Requests : historyTurn'[r].pc # "new" => historyTurn'[r].of \in HistorySessions
    BY DEF HistoryInv, HistoryTyped
  <2> QED
    BY <1>0, <2>1 DEF HistoryInv, HistoryTyped
<1>2. HistoryKnown'
  BY <1>0 DEF HistoryInv, HistoryKnown
<1>3. HistoryForks'
  <2> SUFFICES ASSUME historyCall'.pc \in {"fork", "copy"}
               PROVE  \E old \in historyVersions'[historyCall'.parent] : History!IsPrefix(historyCall'.copy, old)
    BY DEF HistoryForks
  <2>1. historyCall.pc \in {"fork", "copy"} /\ historyCall'.parent = historyCall.parent /\ historyCall'.copy = historyCall.copy
    OBVIOUS
  <2>2. historyCall.parent \in HistorySessions
    BY <2>1, HistoryTypes
  <2> QED
    BY <2>1, <2>2 DEF HistoryInv, HistoryForks
<1>4. HistoryFresh'
  <2> SUFFICES ASSUME NEW r \in History!Requests, historyTurn'[r].pc \in {"new", "loaded"}
               PROVE  /\ \A t \in HistorySessions : r \notin History!ToSet(historySession'[t].messages) /\ r \notin historyReverted'[t]
                      /\ \A q \in History!Requests : r \notin History!ToSet(historyTurn'[q].messages)
                      /\ historyCall'.pc # "idle" => r \notin History!ToSet(historyCall'.copy)
    BY DEF HistoryFresh
  <2>1. /\ historyTurn[r].pc \in {"new", "loaded"}
        /\ \A t \in HistorySessions : r \notin History!ToSet(historySession[t].messages) /\ r \notin historyReverted[t]
        /\ \A q \in History!Requests : r \notin History!ToSet(historyTurn[q].messages)
        /\ historyCall.pc # "idle" => r \notin History!ToSet(historyCall.copy)
    BY DEF HistoryInv, HistoryFresh
  <2>2. \A t \in HistorySessions : r \notin History!ToSet(historySession'[t].messages) /\ r \notin historyReverted'[t]
    BY <1>0, <2>1
  <2>3. \A q \in History!Requests : r \notin History!ToSet(historyTurn'[q].messages)
    BY <2>1, HistoryEmpty
  <2> QED
    BY <2>1, <2>2, <2>3
<1>5. HistoryCut'
  <2>1. ASSUME NEW t \in HistorySessions \ historyOverlapped
        PROVE  /\ History!ToSet(historySession'[t].messages) \cap historyReverted'[t] = {}
               /\ \A r \in History!Requests : historyTurn'[r].pc = "loaded" /\ historyTurn'[r].of = t =>
                     /\ History!ToSet(historyTurn'[r].messages) \cap historyReverted'[t] = {}
                     /\ ~(historyCall'.pc = "revert" /\ historyCall'.of = t)
    <3>1. /\ History!ToSet(historySession[t].messages) \cap historyReverted[t] = {}
          /\ \A r \in History!Requests : historyTurn[r].pc = "loaded" /\ historyTurn[r].of = t =>
                /\ History!ToSet(historyTurn[r].messages) \cap historyReverted[t] = {}
                /\ ~(historyCall.pc = "revert" /\ historyCall.of = t)
      BY DEF HistoryInv, HistoryCut
    <3>2. History!ToSet(historySession'[t].messages) \cap historyReverted'[t] = {}
      BY <1>0, <3>1
    <3>3. ASSUME NEW r \in History!Requests, historyTurn'[r].pc = "loaded", historyTurn'[r].of = t
          PROVE  /\ History!ToSet(historyTurn'[r].messages) \cap historyReverted'[t] = {}
                 /\ ~(historyCall'.pc = "revert" /\ historyCall'.of = t)
      <4>1. historyTurn'[r] = historyTurn[r]
        BY <3>3
      <4>2. historyReverted'[t] \subseteq historyReverted[t]
        BY <3>3
      <4> QED
        BY <3>1, <3>3, <4>1, <4>2
    <3> QED
      BY <3>2, <3>3
  <2> QED
    BY <2>1 DEF HistoryCut
<1> QED
  BY <1>1, <1>2, <1>3, <1>4, <1>5 DEF HistoryInv

\* A turn is saved: it was in no history before.
LEMMA HistorySave ==
    ASSUME HistoryInv, NEW r \in History!Requests, NEW asks \in BOOLEAN, History!Save(r, asks)
    PROVE  HistoryInv'
<1> DEFINE s == historyTurn[r].of
           m == Append(historyTurn[r].messages, r)
           row == [historySession[s] EXCEPT !.exists = TRUE, !.messages = m]
<1>0. historyTurn[r] \in History!Turn /\ historyTurn \in [History!Requests -> History!Turn]
      /\ historySession \in [HistorySessions -> History!Row] /\ historyTurn[r].pc = "loaded"
      /\ historyVersions \in [HistorySessions -> SUBSET History!Messages] /\ s \in HistorySessions
      /\ historyCall \in History!Calls /\ historyReverted \in [HistorySessions -> SUBSET History!Requests]
  BY DEF HistoryInv, HistoryTyped, History!Save, History!At
<1>1. historyTurn' \in [History!Requests -> History!Turn] /\ historyTurn'[r].pc \in {"asked", "done"}
      /\ historyTurn'[r].messages = << >> /\ historyTurn'[r].of = historyTurn[r].of
      /\ \A q \in History!Requests \ {r} : historyTurn'[q] = historyTurn[q]
  BY <1>0, HistoryEmpty DEF History!Save, History!Turn
<1>2. m \in History!Messages /\ History!ToSet(m) \subseteq History!ToSet(historyTurn[r].messages) \cup {r}
  BY HistoryTypes, HistoryAppend
<1>3. /\ UNCHANGED << historyCall, historyReverted, historyOverlapped >>
      /\ historySession' = [historySession EXCEPT ![s].exists = TRUE, ![s].messages = m]
      /\ historyVersions' = [historyVersions EXCEPT ![s] = historyVersions[s] \cup {m}]
  BY DEF History!Save, History!Written
<1> HIDE DEF m, s
<1>4. row \in History!Row /\ row.exists /\ row.messages = m
  <2>1. historySession[s] \in History!Row
    BY <1>0
  <2> QED
    BY <1>2, <2>1 DEF History!Row
<1>5. historySession' = [historySession EXCEPT ![s] = row]
  BY <1>0, <1>3 DEF History!Row
<1> HIDE DEF row
<1>6. historyVersions' \in [HistorySessions -> SUBSET History!Messages] /\ m \in historyVersions'[s]
      /\ \A t \in HistorySessions : historyVersions[t] \subseteq historyVersions'[t]
  BY <1>0, <1>2, <1>3
<1>7. /\ historyCall'.pc # "idle" => historyCall.pc # "idle" /\ historyCall'.copy = historyCall.copy
      /\ historyCall'.pc = "copy" => historyReverted'[historyCall'.of] = {}
  BY <1>3 DEF HistoryInv, HistoryCut
<1>8. \A q \in History!Requests : historyTurn'[q].pc \in {"new", "loaded"} => q \notin History!ToSet(m)
  <2>1. \A q \in History!Requests : historyTurn'[q].pc \in {"new", "loaded"} =>
            q # r /\ q \notin History!ToSet(historyTurn[r].messages)
    BY <1>1 DEF HistoryInv, HistoryFresh
  <2> QED
    BY <1>2, <2>1
<1>9. s \notin historyOverlapped => History!ToSet(m) \cap historyReverted'[s] = {}
  <2>1. r \notin historyReverted[s]
    BY <1>0 DEF HistoryInv, HistoryFresh
  <2>2. s \notin historyOverlapped => History!ToSet(historyTurn[r].messages) \cap historyReverted[s] = {}
    BY <1>0 DEF HistoryInv, HistoryCut, s
  <2> QED
    BY <1>2, <1>3, <2>1, <2>2
<1>10. historyReverted'[s] # {} => historyVersions'[s] # {}
  BY <1>6
<1>11. \A q \in History!Requests :
           \/ historyTurn'[q] = historyTurn[q]
           \/ historyTurn[q].pc = "loaded" /\ historyTurn'[q].pc \in {"asked", "done"}
              /\ historyTurn'[q].of = historyTurn[q].of /\ historyTurn'[q].messages = << >>
  BY <1>0, <1>1
<1>12. /\ historyReverted' \in [HistorySessions -> SUBSET History!Requests] /\ historyReverted' = historyReverted
       /\ historyCall' \in History!Calls /\ historyCall' = historyCall /\ historyOverlapped' = historyOverlapped
  BY <1>0, <1>3
<1>13. row.messages \in historyVersions'[s] /\ s \in HistorySessions
  BY <1>0, <1>4, <1>6
<1>14. HistoryRowGoes(s, row)
  BY <1>4, <1>5, <1>6, <1>13 DEF HistoryRowGoes
<1>15. HistoryTurnsGo
  BY <1>1, <1>11 DEF HistoryTurnsGo
<1>16. HistoryCallGoes
  BY <1>7, <1>12 DEF HistoryCallGoes
<1>17. HistoryCutsGo(s)
  BY <1>10, <1>12 DEF HistoryCutsGo
<1>18. HistoryFits(s, row)
  BY <1>4, <1>8, <1>9, <1>12 DEF HistoryFits
<1> QED
  BY <1>4, <1>13, <1>14, <1>15, <1>16, <1>17, <1>18, HistoryWrites

\* The types of the variables, for the steps below.
LEMMA HistoryVariables ==
    ASSUME HistoryInv
    PROVE  /\ historyTurn \in [History!Requests -> History!Turn]
           /\ historySession \in [HistorySessions -> History!Row] /\ historyCall \in History!Calls
           /\ historyReverted \in [HistorySessions -> SUBSET History!Requests]
           /\ historyVersions \in [HistorySessions -> SUBSET History!Messages]
           /\ \A s \in HistorySessions : historyVersions[s] = {} => historyReverted[s] = {}
           /\ historyCall.pc = "copy" => historyReverted[historyCall.of] = {}
           /\ History!Idle \in History!Calls /\ History!Idle.pc = "idle"
BY DEF HistoryInv, HistoryTyped, HistoryKnown, HistoryCut, History!Calls, History!Idle

LEMMA HistoryCreate ==
    ASSUME HistoryInv, NEW s \in HistorySessions, History!Create(s)
    PROVE  HistoryInv'
<1> DEFINE row == History!NewRow
<1>1. /\ historySession' = [historySession EXCEPT ![s] = row]
      /\ historyVersions' = [historyVersions EXCEPT ![s] = historyVersions[s] \cup {<< >>}]
      /\ historyTurn' = historyTurn /\ historyCall' = historyCall /\ historyReverted' = historyReverted
      /\ historyOverlapped' = historyOverlapped
  BY DEF History!Create
<1>2. row \in History!Row /\ row.exists /\ row.messages = << >>
  BY HistoryEmpty DEF History!NewRow, History!NoRow, History!Row
<1> HIDE DEF row
<1>3. /\ historyVersions' \in [HistorySessions -> SUBSET History!Messages] /\ << >> \in historyVersions'[s]
      /\ \A t \in HistorySessions : historyVersions[t] \subseteq historyVersions'[t]
  BY <1>1, HistoryEmpty, HistoryVariables
<1>4. HistoryRowGoes(s, row)
  BY <1>1, <1>2, <1>3 DEF HistoryRowGoes
<1>5. HistoryTurnsGo /\ HistoryCallGoes
  BY <1>1, HistoryVariables DEF HistoryTurnsGo, HistoryCallGoes
<1>6. HistoryCutsGo(s)
  BY <1>1, <1>3, HistoryVariables DEF HistoryCutsGo
<1>7. HistoryFits(s, row)
  BY <1>1, <1>2, HistoryEmpty DEF HistoryFits
<1> QED
  BY <1>2, <1>4, <1>5, <1>6, <1>7, HistoryWrites

LEMMA HistoryDelete ==
    ASSUME HistoryInv, NEW s \in HistorySessions, History!Delete(s)
    PROVE  HistoryInv'
<1> DEFINE row == History!NoRow
<1>1. /\ historySession' = [historySession EXCEPT ![s] = row]
      /\ historyReverted' = [historyReverted EXCEPT ![s] = {}]
      /\ historyTurn' = historyTurn /\ historyCall' = historyCall /\ historyVersions' = historyVersions
      /\ historyOverlapped' = historyOverlapped
  BY DEF History!Delete
<1>2. row \in History!Row /\ ~row.exists /\ row.messages = << >>
  BY HistoryEmpty DEF History!NoRow, History!Row, History!Nobody
<1> HIDE DEF row
<1>3. /\ historyReverted' \in [HistorySessions -> SUBSET History!Requests] /\ historyReverted'[s] = {}
      /\ \A t \in HistorySessions \ {s} : historyReverted'[t] = historyReverted[t]
  BY <1>1, HistoryVariables
<1>4. historyCall'.pc = "copy" => historyReverted'[historyCall'.of] = {}
  <2>1. historyCall.pc = "copy" => historyCall.of \in HistorySessions
    BY HistoryTypes
  <2> QED
    BY <1>1, <1>3, <2>1, HistoryVariables
<1>5. HistoryRowGoes(s, row)
  BY <1>1, <1>2, HistoryVariables DEF HistoryRowGoes
<1>6. HistoryTurnsGo
  BY <1>1, HistoryVariables DEF HistoryTurnsGo
<1>7. HistoryCallGoes
  BY <1>1, <1>4, HistoryVariables DEF HistoryCallGoes
<1>8. HistoryCutsGo(s)
  BY <1>1, <1>3 DEF HistoryCutsGo
<1>9. HistoryFits(s, row)
  BY <1>2, <1>3, HistoryEmpty DEF HistoryFits
<1> QED
  BY <1>2, <1>5, <1>6, <1>7, <1>8, <1>9, HistoryWrites

LEMMA HistoryCreateFork ==
    ASSUME HistoryInv, NEW s \in HistorySessions, History!CreateFork(s)
    PROVE  HistoryInv'
<1> DEFINE row == [History!NewRow EXCEPT !.parent = historyCall.parent]
<1>1. /\ historyCall.pc = "fork" /\ historyVersions[s] = {}
      /\ historySession' = [historySession EXCEPT ![s] = row]
      /\ historyVersions' = [historyVersions EXCEPT ![s] = historyVersions[s] \cup {<< >>}]
      /\ historyCall' = IF historyCall.copy = << >> THEN History!Idle ELSE [historyCall EXCEPT !.pc = "copy", !.of = s]
      /\ historyTurn' = historyTurn /\ historyReverted' = historyReverted /\ historyOverlapped' = historyOverlapped
  BY DEF History!CreateFork, History!Fresh
<1>2. row \in History!Row /\ row.exists /\ row.messages = << >>
  <2>1. historyCall.parent \in HistorySessions
    BY <1>1, HistoryTypes
  <2> DEFINE new == History!NewRow
  <2>2. new \in History!Row /\ new.exists /\ new.messages = << >>
    BY HistoryEmpty DEF History!NewRow, History!NoRow, History!Row
  <2> HIDE DEF new
  <2>3. /\ [new EXCEPT !.parent = historyCall.parent] \in History!Row /\ [new EXCEPT !.parent = historyCall.parent].exists
        /\ [new EXCEPT !.parent = historyCall.parent].messages = << >>
    BY <2>1, <2>2 DEF History!Row
  <2> QED
    BY <2>3 DEF new
<1> HIDE DEF row
<1>3. /\ historyVersions' \in [HistorySessions -> SUBSET History!Messages] /\ << >> \in historyVersions'[s]
      /\ \A t \in HistorySessions : historyVersions[t] \subseteq historyVersions'[t]
  BY <1>1, HistoryEmpty, HistoryVariables
<1>4. /\ historyCall' \in History!Calls /\ historyCall'.pc \in {"idle", "copy"}
      /\ historyCall'.pc = "copy" => /\ historyCall'.copy = historyCall.copy /\ historyCall'.parent = historyCall.parent
                                     /\ historyCall'.of = s
  <2>1. CASE historyCall.copy = << >>
    BY <1>1, <2>1, HistoryVariables
  <2>2. CASE historyCall.copy # << >>
    <3>1. historyCall \in [pc : {"fork", "copy", "revert"}, of : HistorySessions, parent : HistorySessions, copy : History!Messages]
      BY <1>1, HistoryVariables DEF History!Calls, History!Idle
    <3> QED
      BY <1>1, <2>2, <3>1 DEF History!Calls
  <2> QED
    BY <2>1, <2>2
<1>5. historyReverted[s] = {} /\ historyTurn' = historyTurn /\ historyReverted' = historyReverted /\ historyOverlapped' = historyOverlapped
      /\ historySession' = [historySession EXCEPT ![s] = row] /\ historyCall.pc = "fork"
  BY <1>1, HistoryVariables
<1>6. HistoryRowGoes(s, row)
  BY <1>2, <1>3, <1>5 DEF HistoryRowGoes
<1>7. HistoryTurnsGo
  BY <1>5, HistoryVariables DEF HistoryTurnsGo
<1>8. HistoryCallGoes
  BY <1>4, <1>5 DEF HistoryCallGoes
<1>9. HistoryCutsGo(s)
  BY <1>5, HistoryVariables DEF HistoryCutsGo
<1>10. HistoryFits(s, row)
  BY <1>2, <1>5, HistoryEmpty DEF HistoryFits
<1> QED
  BY <1>2, <1>6, <1>7, <1>8, <1>9, <1>10, HistoryWrites

\* A copy is written to its row.
LEMMA HistoryWritten ==
    ASSUME HistoryInv, NEW s \in HistorySessions, NEW m \in History!Messages, History!Written(s, m)
    PROVE  /\ \E row \in History!Row : row.exists /\ row.messages = m /\ historySession' = [historySession EXCEPT ![s] = row]
           /\ historyVersions' \in [HistorySessions -> SUBSET History!Messages] /\ m \in historyVersions'[s]
           /\ \A t \in HistorySessions : historyVersions[t] \subseteq historyVersions'[t]
<1> DEFINE row == [historySession[s] EXCEPT !.exists = TRUE, !.messages = m]
<1>1. row \in History!Row /\ row.exists /\ row.messages = m
  <2>1. historySession[s] \in History!Row
    BY HistoryVariables
  <2> QED
    BY <2>1 DEF History!Row
<1>2. historySession' = [historySession EXCEPT ![s] = row]
  BY HistoryVariables DEF History!Written, History!Row
<1>3. historyVersions' = [historyVersions EXCEPT ![s] = historyVersions[s] \cup {m}]
  BY DEF History!Written
<1> HIDE DEF row
<1> QED
  BY <1>1, <1>2, <1>3, HistoryVariables

LEMMA HistorySaveFork ==
    ASSUME HistoryInv, History!SaveFork
    PROVE  HistoryInv'
<1> DEFINE s == historyCall.of
           m == historyCall.copy
<1>1. /\ historyCall.pc = "copy" /\ s \in HistorySessions /\ m \in History!Messages /\ historyReverted[s] = {}
      /\ historyCall' = History!Idle /\ historyTurn' = historyTurn /\ historyReverted' = historyReverted
      /\ historyOverlapped' = historyOverlapped
  BY HistoryTypes, HistoryVariables DEF History!SaveFork
<1>2. \A q \in History!Requests : historyTurn'[q].pc \in {"new", "loaded"} => q \notin History!ToSet(m)
  BY <1>1 DEF HistoryInv, HistoryFresh
<1>3. History!Written(s, m)
  BY DEF History!SaveFork
<1> HIDE DEF s, m
<1>4. PICK row \in History!Row : row.exists /\ row.messages = m /\ historySession' = [historySession EXCEPT ![s] = row]
  BY <1>1, <1>3, HistoryWritten
<1>5. /\ historyVersions' \in [HistorySessions -> SUBSET History!Messages] /\ m \in historyVersions'[s]
      /\ \A t \in HistorySessions : historyVersions[t] \subseteq historyVersions'[t]
  BY <1>1, <1>3, HistoryWritten
<1>6. HistoryRowGoes(s, row)
  BY <1>4, <1>5 DEF HistoryRowGoes
<1>7. HistoryTurnsGo /\ HistoryCallGoes
  BY <1>1, HistoryVariables DEF HistoryTurnsGo, HistoryCallGoes
<1>8. HistoryCutsGo(s)
  BY <1>1, HistoryVariables DEF HistoryCutsGo
<1>9. HistoryFits(s, row)
  BY <1>1, <1>2, <1>4 DEF HistoryFits
<1> QED
  BY <1>1, <1>4, <1>6, <1>7, <1>8, <1>9, HistoryWrites

\* What is cut off was in the row; nobody has the session's history in his hands.
LEMMA HistorySaveRevert ==
    ASSUME HistoryInv, History!SaveRevert
    PROVE  HistoryInv'
<1> DEFINE s == historyCall.of
           m == historyCall.copy
           cut == (historyReverted[s] \cup History!ToSet(historySession[s].messages)) \ History!ToSet(m)
<1>1. /\ historyCall.pc = "revert" /\ s \in HistorySessions /\ m \in History!Messages
      /\ historyCall' = History!Idle /\ historyTurn' = historyTurn
      /\ historyOverlapped' = historyOverlapped
      /\ historyReverted' = [historyReverted EXCEPT ![s] = cut]
  BY HistoryTypes, HistoryVariables DEF History!SaveRevert
<1>2. \A q \in History!Requests : historyTurn'[q].pc \in {"new", "loaded"} => q \notin History!ToSet(m)
  BY <1>1 DEF HistoryInv, HistoryFresh
<1>3. History!Written(s, m)
  BY DEF History!SaveRevert
<1>4. s \notin historyOverlapped => \A r \in History!Requests : ~(historyTurn'[r].pc = "loaded" /\ historyTurn'[r].of = s)
  BY <1>1 DEF HistoryInv, HistoryCut
<1>5. cut \in SUBSET History!Requests
  <2>1. historySession[s].messages \in Seq(History!Requests)
    BY <1>1, HistoryTypes DEF History!Messages
  <2>2. History!ToSet(historySession[s].messages) \subseteq History!Requests
    BY <2>1 DEF History!ToSet
  <2> QED
    BY <1>1, <2>2, HistoryVariables
<1>6. /\ historyReverted' \in [HistorySessions -> SUBSET History!Requests]
      /\ \A t \in HistorySessions \ {s} : historyReverted'[t] = historyReverted[t]
      /\ historyReverted'[s] \subseteq historyReverted[s] \cup History!ToSet(historySession[s].messages)
      /\ History!ToSet(m) \cap historyReverted'[s] = {}
  <2> HIDE DEF cut
  <2>1. /\ historyReverted' \in [HistorySessions -> SUBSET History!Requests] /\ historyReverted'[s] = cut
        /\ \A t \in HistorySessions \ {s} : historyReverted'[t] = historyReverted[t]
    BY <1>1, <1>5, HistoryVariables
  <2> QED
    BY <2>1 DEF cut
<1> HIDE DEF s, m, cut
<1>7. PICK row \in History!Row : row.exists /\ row.messages = m /\ historySession' = [historySession EXCEPT ![s] = row]
  BY <1>1, <1>3, HistoryWritten
<1>8. /\ historyVersions' \in [HistorySessions -> SUBSET History!Messages] /\ m \in historyVersions'[s]
      /\ \A t \in HistorySessions : historyVersions[t] \subseteq historyVersions'[t]
  BY <1>1, <1>3, HistoryWritten
<1>9. HistoryRowGoes(s, row)
  BY <1>7, <1>8 DEF HistoryRowGoes
<1>10. HistoryTurnsGo /\ HistoryCallGoes
  BY <1>1, HistoryVariables DEF HistoryTurnsGo, HistoryCallGoes
<1>11. HistoryCutsGo(s)
  BY <1>1, <1>6, <1>8 DEF HistoryCutsGo
<1>12. HistoryFits(s, row)
  BY <1>2, <1>4, <1>6, <1>7 DEF HistoryFits
<1> QED
  BY <1>1, <1>7, <1>9, <1>10, <1>11, <1>12, HistoryWrites

\* A fork or a revert begins with the beginning of the row's messages.
LEMMA HistoryBegin ==
    ASSUME HistoryInv, NEW pc \in {"fork", "revert"}, NEW s \in HistorySessions, History!Loaded(pc, s),
           UNCHANGED << historyTurn, historySession, historyReverted, historyVersions >>,
           historyOverlapped \subseteq historyOverlapped', historyOverlapped' \subseteq HistorySessions,
           pc = "revert" => \/ s \in historyOverlapped'
                           \/ \A r \in History!Requests : ~(historyTurn[r].pc = "loaded" /\ historyTurn[r].of = s)
    PROVE  HistoryInv'
<1> DEFINE q == historySession[s].messages
<1>1. q \in History!Messages /\ q \in historyVersions[s]
  BY HistoryTypes DEF History!Loaded, HistoryInv, HistoryKnown
<1>2. PICK n \in 0..Len(q) : historyCall' = [pc |-> pc, of |-> s, parent |-> s, copy |-> SubSeq(q, 1, n)]
  BY DEF History!Loaded
<1>3. /\ SubSeq(q, 1, n) \in History!Messages /\ History!ToSet(SubSeq(q, 1, n)) \subseteq History!ToSet(q)
      /\ History!IsPrefix(SubSeq(q, 1, n), q)
  BY <1>1, HistoryPrefix
<1>4. /\ historyCall' \in History!Calls /\ historyCall'.pc = pc /\ historyCall'.of = s /\ historyCall'.parent = s
      /\ historyCall'.copy = SubSeq(q, 1, n)
  BY <1>2, <1>3 DEF History!Calls
<1>5. HistoryTyped'
  BY <1>4 DEF HistoryInv, HistoryTyped
<1>6. HistoryKnown'
  BY DEF HistoryInv, HistoryKnown
<1>7. HistoryFresh'
  BY <1>3, <1>4 DEF HistoryInv, HistoryFresh
<1>8. HistoryCut'
  BY <1>4 DEF HistoryInv, HistoryCut
<1>9. HistoryForks'
  BY <1>1, <1>3, <1>4 DEF HistoryForks
<1> QED
  BY <1>5, <1>6, <1>7, <1>8, <1>9 DEF HistoryInv

LEMMA HistoryNext == HistoryInv /\ [History!Next]_(History!vars) => HistoryInv'
<1> SUFFICES ASSUME HistoryInv, [History!Next]_(History!vars) PROVE HistoryInv'
  OBVIOUS
<1>1. ASSUME UNCHANGED History!vars PROVE HistoryInv'
  BY <1>1 DEF HistoryInv, HistoryTyped, HistoryKnown, HistoryFresh, HistoryCut, HistoryForks, History!vars
<1>2. ASSUME NEW r \in History!Requests, NEW s \in HistorySessions, History!Load(r, s) PROVE HistoryInv'
  BY <1>2, HistoryLoad
<1>3. ASSUME NEW r \in History!Requests, NEW asks \in BOOLEAN, History!Save(r, asks) PROVE HistoryInv'
  BY <1>3, HistorySave
<1>4. ASSUME NEW r \in History!Requests, History!PersistQuestion(r) \/ History!Fail(r) PROVE HistoryInv'
  BY <1>4, HistoryPersistQuestion, HistoryFail
<1>5. ASSUME NEW s \in HistorySessions, History!Create(s) \/ History!Delete(s) \/ History!CreateFork(s) PROVE HistoryInv'
  BY <1>5, HistoryCreate, HistoryDelete, HistoryCreateFork
<1>6. ASSUME NEW s \in HistorySessions, History!BeginFork(s) PROVE HistoryInv'
  <2>1. /\ History!Loaded("fork", s) /\ historyOverlapped' = historyOverlapped /\ historyOverlapped \subseteq HistorySessions
        /\ UNCHANGED << historyTurn, historySession, historyReverted, historyVersions >>
    BY <1>6 DEF History!BeginFork, HistoryInv, HistoryTyped
  <2> QED
    BY <2>1, HistoryBegin
<1>7. ASSUME NEW s \in HistorySessions, History!BeginRevert(s) PROVE HistoryInv'
  <2>1. /\ History!Loaded("revert", s) /\ historyOverlapped \subseteq historyOverlapped' /\ historyOverlapped' \subseteq HistorySessions
        /\ UNCHANGED << historyTurn, historySession, historyReverted, historyVersions >>
    BY <1>7 DEF History!BeginRevert, HistoryInv, HistoryTyped
  <2>2. \/ s \in historyOverlapped'
        \/ \A r \in History!Requests : ~(historyTurn[r].pc = "loaded" /\ historyTurn[r].of = s)
    BY <1>7 DEF History!BeginRevert, History!InFlight
  <2> QED
    BY <2>1, <2>2, HistoryBegin
<1>8. ASSUME History!SaveFork \/ History!SaveRevert \/ History!Restart PROVE HistoryInv'
  BY <1>8, HistorySaveFork, HistorySaveRevert, HistoryRestart
<1> QED
  BY <1>1, <1>2, <1>3, <1>4, <1>5, <1>6, <1>7, <1>8 DEF History!Next

LEMMA HistoriesAlwaysStayCut == History!Spec => []History!HistoriesStayCut
<1>1. HistoryInv => History!HistoriesStayCut
  BY DEF HistoryInv, HistoryCut, HistoryForks, History!HistoriesStayCut
<1> QED
  BY <1>1, HistoryInit, HistoryNext, PTL DEF History!Spec

-----------------------------------------------------------------------------
(***************************************************************************)
(* The state of a session.                                                 *)
(*                                                                         *)
(* The checkpoint of a session has the turns of its history.  A stream     *)
(* writes the history first and the checkpoint after it, and each may      *)
(* fail: the invariant follows the one request that is under way and says  *)
(* at each of its steps how far the state, the history and the checkpoint  *)
(* are from each other.                                                    *)
(***************************************************************************)
RecoveryTyped ==
    /\ recoveryReq \in [Recovery!Requests -> Recovery!Request]
    /\ recoveryState \in Seq(Recovery!Requests)
    /\ recoveryRow \in Recovery!Row
    /\ recoveryHistory \in [failed : BOOLEAN, overlapped : BOOLEAN]

\* One request at a time; it has the history the checkpoint belongs to, and its turn is new.
RecoveryAlone ==
    /\ \A q, r \in Recovery!Requests : Recovery!InFlight(q) /\ Recovery!InFlight(r) => q = r
    /\ \A r \in Recovery!Requests : recoveryHolder = r => Recovery!InFlight(r)
    /\ \A r \in Recovery!Requests : recoveryReq[r].pc \in {"new", "queued", "turn", "trace", "save"} =>
          r \notin recoveryRow.messages /\ \A q \in Recovery!Requests : r \notin recoveryReq[q].messages

RecoverySaved == Recovery!ToSet(recoveryRow.checkpoint.state)
RecoveryNow == Recovery!ToSet(recoveryState)

\* How far the state, the history and the checkpoint are, at each step of a request.
RecoveryStep(r) ==
    /\ recoveryReq[r].pc \in {"queued", "turn", "trace", "save"} => RecoverySaved \subseteq recoveryReq[r].messages
    /\ recoveryReq[r].pc = "queued" /\ ~recoveryHistory.failed =>
          RecoverySaved = recoveryReq[r].messages /\ recoveryRow.messages = recoveryReq[r].messages
    /\ recoveryReq[r].pc \in {"turn", "trace", "save", "checkpoint"} =>
          /\ Recovery!IsInjective(recoveryState)
          /\ RecoveryNow \subseteq recoveryReq[r].messages \cup {r}
    /\ recoveryReq[r].pc = "turn" =>
          /\ RecoveryNow \subseteq recoveryReq[r].messages
          /\ ~recoveryHistory.failed => RecoveryNow = recoveryReq[r].messages
    /\ recoveryReq[r].pc \in {"trace", "save", "checkpoint"} /\ ~recoveryHistory.failed =>
          RecoveryNow = recoveryReq[r].messages \cup {r}
    /\ recoveryReq[r].pc = "checkpoint" =>
          /\ ~recoveryHistory.failed => recoveryRow.exists
          /\ recoveryRow.exists => recoveryRow.messages = recoveryReq[r].messages \cup {r}

RecoveryFollows ==
    /\ RecoverySaved \subseteq recoveryRow.messages
    /\ Recovery!IsInjective(recoveryRow.checkpoint.state)
    /\ Recovery!AtRest /\ ~recoveryHistory.failed =>
          RecoverySaved = recoveryRow.messages

RecoveryGood == RecoveryAlone /\ (\A r \in Recovery!Requests : RecoveryStep(r)) /\ RecoveryFollows

RecoveryInv ==
    /\ RecoveryTyped
    /\ Recovery!OnlyStreams /\ ~recoveryHistory.overlapped => RecoveryGood

\* A state, and one with a turn more.
LEMMA RecoveryEmpty == /\ Recovery!ToSet(<< >>) = {} /\ Recovery!IsInjective(<< >>) /\ << >> \in Seq(Recovery!Requests)
BY DEF Recovery!ToSet, Recovery!IsInjective

LEMMA RecoveryAppend ==
    ASSUME NEW q \in Seq(Recovery!Requests), NEW r \in Recovery!Requests
    PROVE  /\ Append(q, r) \in Seq(Recovery!Requests) /\ Recovery!ToSet(Append(q, r)) = Recovery!ToSet(q) \cup {r}
           /\ Recovery!IsInjective(q) /\ r \notin Recovery!ToSet(q) => Recovery!IsInjective(Append(q, r))
<1>1. /\ Append(q, r) \in Seq(Recovery!Requests) /\ Len(q) \in Nat
      /\ Len(Append(q, r)) = Len(q) + 1 /\ Append(q, r)[Len(q) + 1] = r
      /\ \A i \in 1..Len(q) : Append(q, r)[i] = q[i]
  BY Appended
<1>2. DOMAIN q = 1..Len(q) /\ DOMAIN Append(q, r) = 1..Len(q) + 1
  BY <1>1, LenProperties
<1>3. ASSUME NEW i \in 1..Len(q) + 1 PROVE i \in 1..Len(q) \/ i = Len(q) + 1
  BY <1>1
<1>4. Recovery!ToSet(Append(q, r)) \subseteq Recovery!ToSet(q) \cup {r}
  <2> SUFFICES ASSUME NEW i \in 1..Len(q) + 1 PROVE Append(q, r)[i] \in Recovery!ToSet(q) \cup {r}
    BY <1>2 DEF Recovery!ToSet
  <2>1. CASE i \in 1..Len(q)
    BY <1>1, <1>2, <2>1 DEF Recovery!ToSet
  <2>2. CASE i = Len(q) + 1
    BY <1>1, <2>2
  <2> QED
    BY <1>3, <2>1, <2>2
<1>5. Recovery!ToSet(q) \cup {r} \subseteq Recovery!ToSet(Append(q, r))
  <2>1. \A i \in 1..Len(q) : i \in 1..Len(q) + 1
    BY <1>1
  <2>2. \A i \in 1..Len(q) : q[i] \in Recovery!ToSet(Append(q, r))
    BY <1>1, <1>2, <2>1 DEF Recovery!ToSet
  <2>3. r \in Recovery!ToSet(Append(q, r))
    BY <1>1, <1>2 DEF Recovery!ToSet
  <2> QED
    BY <1>2, <2>2, <2>3 DEF Recovery!ToSet
<1>6. ASSUME Recovery!IsInjective(q), r \notin Recovery!ToSet(q) PROVE Recovery!IsInjective(Append(q, r))
  <2>1. \A i \in 1..Len(q) : q[i] # r
    BY <1>2, <1>6 DEF Recovery!ToSet
  <2>2. \A i, j \in 1..Len(q) : q[i] = q[j] => i = j
    BY <1>2, <1>6 DEF Recovery!IsInjective
  <2>3. \A i, j \in 1..Len(q) + 1 : Append(q, r)[i] = Append(q, r)[j] => i = j
    BY <1>1, <1>3, <2>1, <2>2
  <2> QED
    BY <1>2, <2>3 DEF Recovery!IsInjective
<1> QED
  BY <1>1, <1>4, <1>5, <1>6

LEMMA RecoveryInit == Recovery!Init => RecoveryInv
<1> SUFFICES ASSUME Recovery!Init PROVE RecoveryInv
  OBVIOUS
<1>1. RecoveryTyped
  BY RecoveryEmpty DEF Recovery!Init, RecoveryTyped, Recovery!Request, Recovery!PCs, Recovery!Tracing, Recovery!Row,
        Recovery!NoRow, Recovery!NoCheckpoint
<1>2. /\ \A r \in Recovery!Requests : recoveryReq[r].pc = "new" /\ recoveryReq[r].messages = {}
      /\ recoveryRow.messages = {} /\ recoveryRow.checkpoint.state = << >>
  BY DEF Recovery!Init, Recovery!NoRow, Recovery!NoCheckpoint
<1>3. RecoveryAlone
  <2>1. recoveryHolder = 0 /\ \A r \in Recovery!Requests : r # 0
    BY DEF Recovery!Init, Recovery!Requests, Recovery!None
  <2> QED
    BY <1>2, <2>1 DEF RecoveryAlone, Recovery!InFlight
<1>4. \A r \in Recovery!Requests : RecoveryStep(r)
  BY <1>2 DEF RecoveryStep
<1>5. RecoveryFollows
  BY <1>2, RecoveryEmpty DEF RecoveryFollows, RecoverySaved
<1> QED
  BY <1>1, <1>3, <1>4, <1>5 DEF RecoveryInv, RecoveryGood

\* A request goes on; the others stand where they stood.
RecoveryGoes(r, pc) ==
    /\ recoveryReq' \in [Recovery!Requests -> Recovery!Request]
    /\ recoveryReq'[r].pc = pc /\ recoveryReq'[r].stream = recoveryReq[r].stream
    /\ recoveryReq'[r].tracing = recoveryReq[r].tracing
    /\ recoveryReq'[r].messages = IF pc = "done" THEN {} ELSE recoveryReq[r].messages
    /\ \A q \in Recovery!Requests \ {r} : recoveryReq'[q] = recoveryReq[q]

LEMMA RecoveryGoto ==
    ASSUME RecoveryTyped, NEW r \in Recovery!Requests, NEW pc \in Recovery!PCs, Recovery!Goto(r, pc)
    PROVE  RecoveryGoes(r, pc)
<1> DEFINE m == IF pc = "done" THEN {} ELSE recoveryReq[r].messages
           new == [recoveryReq[r] EXCEPT !.pc = pc, !.messages = m]
<1>1. recoveryReq \in [Recovery!Requests -> Recovery!Request] /\ recoveryReq[r] \in Recovery!Request
  BY DEF RecoveryTyped
<1>2. m \in SUBSET Recovery!Requests
  BY <1>1 DEF Recovery!Request
<1>3. recoveryReq' = [recoveryReq EXCEPT ![r].pc = pc, ![r].messages = m]
  BY <1>1 DEF Recovery!Goto, Recovery!Request
<1> HIDE DEF m
<1>4. recoveryReq' = [recoveryReq EXCEPT ![r] = new]
  BY <1>1, <1>3 DEF Recovery!Request
<1>5. /\ new \in Recovery!Request /\ new.pc = pc /\ new.messages = m
      /\ new.stream = recoveryReq[r].stream /\ new.tracing = recoveryReq[r].tracing
  BY <1>1, <1>2 DEF Recovery!Request
<1> HIDE DEF new
<1>6. recoveryReq' \in [Recovery!Requests -> Recovery!Request] /\ recoveryReq'[r] = new
      /\ \A q \in Recovery!Requests \ {r} : recoveryReq'[q] = recoveryReq[q]
  BY <1>1, <1>4, <1>5
<1> QED
  BY <1>5, <1>6 DEF RecoveryGoes, m

\* The row: its messages and its checkpoint.
LEMMA RecoveryTypes ==
    ASSUME RecoveryTyped
    PROVE  /\ recoveryRow.checkpoint.state \in Seq(Recovery!Requests) /\ recoveryRow.messages \subseteq Recovery!Requests
           /\ recoveryState \in Seq(Recovery!Requests)
           /\ recoveryReq \in [Recovery!Requests -> Recovery!Request]
           /\ \A r \in Recovery!Requests : recoveryReq[r].messages \subseteq Recovery!Requests
<1>1. recoveryRow.checkpoint \in Recovery!Checkpoint \cup {Recovery!NoCheckpoint} /\ recoveryRow.messages \subseteq Recovery!Requests
  BY DEF RecoveryTyped, Recovery!Row
<1>2. \A c \in Recovery!Checkpoint \cup {Recovery!NoCheckpoint} : c.state \in Seq(Recovery!Requests)
  <2>1. \A c \in Recovery!Checkpoint : c.state \in Seq(Recovery!Requests)
    BY DEF Recovery!Checkpoint
  <2>2. Recovery!NoCheckpoint.state = << >>
    BY DEF Recovery!NoCheckpoint
  <2> QED
    BY <2>1, <2>2, RecoveryEmpty
<1>3. recoveryReq \in [Recovery!Requests -> Recovery!Request] /\ recoveryState \in Seq(Recovery!Requests)
  BY DEF RecoveryTyped
<1>4. \A r \in Recovery!Requests : recoveryReq[r].messages \subseteq Recovery!Requests
  BY <1>3 DEF Recovery!Request
<1> QED
  BY <1>1, <1>2, <1>3, <1>4

\* Alone, a request that goes on leaves the others at rest.
RecoveryActs(r, pc) ==
    /\ Recovery!InFlight(r) /\ RecoveryGoes(r, pc) /\ pc \in Recovery!PCs \ {"new"}
    /\ pc \in {"queued", "turn", "trace", "save"} => recoveryReq[r].pc \in {"queued", "turn", "trace", "save"}
    /\ recoveryRow'.messages \subseteq
          recoveryRow.messages \cup (IF pc = "checkpoint" THEN recoveryReq[r].messages \cup {r} ELSE {})
    /\ recoveryHolder' \in {recoveryHolder, r, Recovery!None} /\ (pc = "done" => recoveryHolder' # r)

LEMMA RecoveryAloneStays ==
    ASSUME RecoveryTyped, RecoveryGood, NEW r \in Recovery!Requests, NEW pc, RecoveryActs(r, pc)
    PROVE  /\ RecoveryAlone' /\ \A q \in Recovery!Requests \ {r} : RecoveryStep(q)'
           /\ pc # "done" => ~Recovery!AtRest'
<1> DEFINE fresh == {"new", "queued", "turn", "trace", "save"}
           before == recoveryReq[r].messages
<1>1. /\ recoveryReq' \in [Recovery!Requests -> Recovery!Request] /\ recoveryReq'[r].pc = pc
      /\ recoveryReq'[r].messages \subseteq before
      /\ \A q \in Recovery!Requests \ {r} : recoveryReq'[q] = recoveryReq[q]
      /\ recoveryReq[r].pc \notin {"new", "done"} /\ pc # "new"
      /\ pc \in fresh => recoveryReq[r].pc \in fresh
  BY DEF RecoveryActs, RecoveryGoes, Recovery!InFlight
<1>2. \A q \in Recovery!Requests \ {r} : recoveryReq[q].pc \in {"new", "done"} /\ recoveryReq'[q].pc \in {"new", "done"}
  BY <1>1 DEF RecoveryGood, RecoveryAlone, Recovery!InFlight
<1>3. RecoveryAlone'
  <2>1. \A q, s \in Recovery!Requests : Recovery!InFlight(q)' /\ Recovery!InFlight(s)' => q = s
    BY <1>2 DEF Recovery!InFlight
  <2>3. \A q \in Recovery!Requests : recoveryHolder' = q => Recovery!InFlight(q)'
    <3>1. \A q \in Recovery!Requests : recoveryHolder = q => q = r
      BY <1>2 DEF RecoveryGood, RecoveryAlone, Recovery!InFlight
    <3>2. \A q \in Recovery!Requests : q # Recovery!None
      BY DEF Recovery!Requests, Recovery!None
    <3>3. \A q \in Recovery!Requests : recoveryHolder' = q => q = r /\ pc # "done"
      BY <3>1, <3>2 DEF RecoveryActs
    <3> QED
      BY <1>1, <3>3 DEF Recovery!InFlight
  <2>2. ASSUME NEW q \in Recovery!Requests, recoveryReq'[q].pc \in fresh
        PROVE  q \notin recoveryRow'.messages /\ \A s \in Recovery!Requests : q \notin recoveryReq'[s].messages
    <3>1. recoveryReq[q].pc \in fresh
      BY <1>1, <2>2
    <3>2. q \notin recoveryRow.messages /\ \A s \in Recovery!Requests : q \notin recoveryReq[s].messages
      BY <3>1 DEF RecoveryGood, RecoveryAlone
    <3>3. pc = "checkpoint" => q # r
      BY <1>1, <2>2
    <3>4. q \notin recoveryRow'.messages
      BY <3>2, <3>3 DEF RecoveryActs
    <3>5. \A s \in Recovery!Requests : q \notin recoveryReq'[s].messages
      BY <1>1, <3>2
    <3> QED
      BY <3>4, <3>5
  <2> QED
    BY <2>1, <2>2, <2>3 DEF RecoveryAlone
<1>4. \A q \in Recovery!Requests \ {r} : RecoveryStep(q)'
  BY <1>2 DEF RecoveryStep
<1>5. pc # "done" => ~Recovery!AtRest'
  BY <1>1 DEF Recovery!AtRest, Recovery!InFlight
<1> QED
  BY <1>3, <1>4, <1>5

LEMMA RecoveryArrive ==
    ASSUME RecoveryTyped, NEW r \in Recovery!Requests, NEW stream \in BOOLEAN, NEW tracing \in Recovery!Tracing,
           Recovery!Arrive(r, stream, tracing)
    PROVE  /\ RecoveryTyped'
           /\ RecoveryGood /\ ~recoveryHistory'.overlapped => RecoveryGood'
           /\ recoveryHistory.overlapped => recoveryHistory'.overlapped
           /\ \A q \in Recovery!Requests : recoveryReq[q].pc # "new" =>
                 recoveryReq'[q].pc # "new" /\ recoveryReq'[q].stream = recoveryReq[q].stream
<1> DEFINE new == [pc |-> "queued", stream |-> stream, tracing |-> tracing, messages |-> recoveryRow.messages]
           h == recoveryHistory.overlapped \/ \E q \in Recovery!Requests : Recovery!InFlight(q)
<1>0. recoveryHistory \in [failed : BOOLEAN, overlapped : BOOLEAN] /\ recoveryReq \in [Recovery!Requests -> Recovery!Request]
      /\ h \in BOOLEAN
  BY DEF RecoveryTyped
<1>1. new \in Recovery!Request /\ new.pc = "queued" /\ new.messages = recoveryRow.messages
  BY RecoveryTypes DEF Recovery!Request, Recovery!PCs
<1>2. /\ recoveryReq[r].pc = "new" /\ recoveryReq' = [recoveryReq EXCEPT ![r] = new]
      /\ recoveryHistory' = [recoveryHistory EXCEPT !.overlapped = h]
      /\ recoveryState' = recoveryState /\ recoveryRow' = recoveryRow /\ recoveryHolder' = recoveryHolder
  BY DEF Recovery!Arrive, Recovery!At
<1>3. recoveryReq' \in [Recovery!Requests -> Recovery!Request] /\ recoveryReq'[r] = new
      /\ \A q \in Recovery!Requests \ {r} : recoveryReq'[q] = recoveryReq[q]
  BY <1>0, <1>1, <1>2
<1>4. /\ recoveryHistory' \in [failed : BOOLEAN, overlapped : BOOLEAN] /\ recoveryHistory'.failed = recoveryHistory.failed
      /\ recoveryHistory'.overlapped = h
  <2> HIDE DEF h
  <2> QED
    BY <1>0, <1>2
<1> HIDE DEF new
<1>5. RecoveryTyped'
  BY <1>2, <1>3, <1>4 DEF RecoveryTyped
<1>6. ASSUME RecoveryGood, ~recoveryHistory'.overlapped PROVE RecoveryGood'
  <2>1. \A q \in Recovery!Requests : recoveryReq[q].pc \in {"new", "done"}
    BY <1>4, <1>6 DEF Recovery!InFlight
  <2>2. RecoveryAlone'
    <3>1. \A q \in Recovery!Requests \ {r} : recoveryReq'[q].pc \in {"new", "done"}
      BY <1>3, <2>1
    <3>2. \A q, s \in Recovery!Requests : Recovery!InFlight(q)' /\ Recovery!InFlight(s)' => q = s
      BY <3>1 DEF Recovery!InFlight
    <3>3. ASSUME NEW q \in Recovery!Requests, recoveryReq'[q].pc \in {"new", "queued", "turn", "trace", "save"}
          PROVE  q \notin recoveryRow'.messages /\ \A s \in Recovery!Requests : q \notin recoveryReq'[s].messages
      <4>1. recoveryReq[q].pc = "new"
        BY <1>2, <1>3, <2>1, <3>3
      <4>2. q \notin recoveryRow.messages /\ \A s \in Recovery!Requests : q \notin recoveryReq[s].messages
        BY <1>6, <4>1 DEF RecoveryGood, RecoveryAlone
      <4> QED
        BY <1>1, <1>2, <1>3, <4>2
    <3>4. \A q \in Recovery!Requests : recoveryHolder' = q => Recovery!InFlight(q)'
      BY <1>2, <1>6, <2>1 DEF RecoveryGood, RecoveryAlone, Recovery!InFlight
    <3> QED
      BY <3>2, <3>3, <3>4 DEF RecoveryAlone
  <2>3. Recovery!AtRest
    BY <2>1 DEF Recovery!AtRest, Recovery!InFlight
  <2>4. \A q \in Recovery!Requests \ {r} : RecoveryStep(q)'
    BY <1>3, <2>1 DEF RecoveryStep
  <2>5. RecoveryStep(r)'
    BY <1>1, <1>2, <1>3, <1>4, <1>6, <2>3 DEF RecoveryGood, RecoveryFollows, RecoveryStep, RecoverySaved
  <2>6. RecoveryFollows'
    <3>1. ~Recovery!AtRest'
      BY <1>1, <1>3 DEF Recovery!AtRest, Recovery!InFlight
    <3> QED
      BY <1>2, <1>6, <3>1 DEF RecoveryGood, RecoveryFollows, RecoverySaved
  <2> QED
    BY <2>2, <2>4, <2>5, <2>6 DEF RecoveryGood
<1>7. \A q \in Recovery!Requests : recoveryReq[q].pc # "new" =>
          recoveryReq'[q].pc # "new" /\ recoveryReq'[q].stream = recoveryReq[q].stream
  BY <1>2, <1>3
<1> QED
  BY <1>4, <1>5, <1>6, <1>7

\* What no step undoes.
RecoveryStays ==
    /\ recoveryHistory'.overlapped = recoveryHistory.overlapped
    /\ \A q \in Recovery!Requests : recoveryReq[q].pc # "new" =>
          recoveryReq'[q].pc # "new" /\ recoveryReq'[q].stream = recoveryReq[q].stream

LEMMA RecoveryMarks ==
    ASSUME RecoveryTyped, NEW failed \in BOOLEAN,
           Recovery!Mark(failed) \/ (failed /\ Recovery!Failed) \/ (~failed /\ UNCHANGED recoveryHistory)
    PROVE  /\ recoveryHistory' \in [failed : BOOLEAN, overlapped : BOOLEAN]
           /\ recoveryHistory'.overlapped = recoveryHistory.overlapped
           /\ recoveryHistory'.failed <=> recoveryHistory.failed \/ failed
<1>1. recoveryHistory \in [failed : BOOLEAN, overlapped : BOOLEAN]
  BY DEF RecoveryTyped
<1>2. CASE Recovery!Mark(failed)
  <2> DEFINE f == recoveryHistory.failed \/ failed
  <2>1. recoveryHistory' = [recoveryHistory EXCEPT !.failed = f] /\ f \in BOOLEAN
    BY <1>1, <1>2 DEF Recovery!Mark
  <2>2. f <=> recoveryHistory.failed \/ failed
    OBVIOUS
  <2> HIDE DEF f
  <2>3. recoveryHistory' \in [failed : BOOLEAN, overlapped : BOOLEAN] /\ recoveryHistory'.failed = f
        /\ recoveryHistory'.overlapped = recoveryHistory.overlapped
    BY <1>1, <2>1
  <2> QED
    BY <2>2, <2>3
<1>3. CASE failed /\ Recovery!Failed
  <2>1. recoveryHistory' = [recoveryHistory EXCEPT !.failed = TRUE]
    BY <1>3 DEF Recovery!Failed
  <2>2. recoveryHistory' \in [failed : BOOLEAN, overlapped : BOOLEAN] /\ recoveryHistory'.failed = TRUE
        /\ recoveryHistory'.overlapped = recoveryHistory.overlapped
    BY <1>1, <2>1
  <2> QED
    BY <1>3, <2>2
<1>4. CASE ~failed /\ UNCHANGED recoveryHistory
  BY <1>1, <1>4
<1> QED
  BY <1>2, <1>3, <1>4

\* A request takes a step of its own.
LEMMA RecoveryStepped ==
    ASSUME RecoveryTyped, NEW r \in Recovery!Requests, NEW pc \in Recovery!PCs \ {"new"}, Recovery!Goto(r, pc),
           NEW failed \in BOOLEAN,
           Recovery!Mark(failed) \/ (failed /\ Recovery!Failed) \/ (~failed /\ UNCHANGED recoveryHistory),
           recoveryState' \in Seq(Recovery!Requests), recoveryRow' \in Recovery!Row
    PROVE  /\ RecoveryTyped' /\ RecoveryStays /\ RecoveryGoes(r, pc)
           /\ recoveryHistory'.failed <=> recoveryHistory.failed \/ failed
<1>1. RecoveryGoes(r, pc)
  BY RecoveryGoto
<1>2. /\ recoveryHistory' \in [failed : BOOLEAN, overlapped : BOOLEAN]
      /\ recoveryHistory'.overlapped = recoveryHistory.overlapped
      /\ recoveryHistory'.failed <=> recoveryHistory.failed \/ failed
  BY RecoveryMarks
<1>3. RecoveryTyped'
  BY <1>1, <1>2 DEF RecoveryTyped, RecoveryGoes
<1>4. RecoveryStays
  BY <1>1, <1>2 DEF RecoveryStays, RecoveryGoes
<1> QED
  BY <1>1, <1>2, <1>3, <1>4

LEMMA RecoveryRecover ==
    ASSUME RecoveryTyped, NEW r \in Recovery!Requests, Recovery!Recover(r) \/ Recovery!RecoverRaises(r)
    PROVE  RecoveryTyped' /\ RecoveryStays /\ (RecoveryGood => RecoveryGood')
<1>1. CASE Recovery!Recover(r)
  <2>1. /\ recoveryReq[r].pc = "queued" /\ Recovery!Goto(r, "turn") /\ recoveryHolder' = r
        /\ recoveryState' = recoveryRow.checkpoint.state /\ recoveryRow' = recoveryRow /\ UNCHANGED recoveryHistory
    BY <1>1 DEF Recovery!Recover, Recovery!At
  <2>2. /\ RecoveryTyped' /\ RecoveryStays /\ RecoveryGoes(r, "turn")
        /\ recoveryHistory'.failed <=> recoveryHistory.failed
    <3>1. "turn" \in Recovery!PCs \ {"new"} /\ recoveryState' \in Seq(Recovery!Requests) /\ recoveryRow' \in Recovery!Row
      BY <2>1, RecoveryTypes DEF Recovery!PCs, RecoveryTyped
    <3> QED
      BY <2>1, <3>1, RecoveryStepped
  <2>3. ASSUME RecoveryGood PROVE RecoveryGood'
    <3>1. RecoveryActs(r, "turn")
      BY <2>1, <2>2 DEF RecoveryActs, Recovery!InFlight, Recovery!PCs
    <3>2. RecoveryAlone' /\ (\A q \in Recovery!Requests \ {r} : RecoveryStep(q)') /\ ~Recovery!AtRest'
      BY <2>3, <3>1, RecoveryAloneStays
    <3>3. RecoveryStep(r) /\ RecoveryFollows
      BY <2>3 DEF RecoveryGood
    <3>4. RecoveryStep(r)'
      BY <2>1, <2>2, <3>3 DEF RecoveryStep, RecoveryFollows, RecoverySaved, RecoveryNow, RecoveryGoes
    <3>5. RecoveryFollows'
      BY <2>1, <3>2, <3>3 DEF RecoveryFollows, RecoverySaved
    <3> QED
      BY <3>2, <3>4, <3>5 DEF RecoveryGood
  <2> QED
    BY <2>2, <2>3
<1>2. CASE Recovery!RecoverRaises(r)
  <2>1. /\ recoveryReq[r].pc = "queued" /\ Recovery!Goto(r, "done") /\ recoveryHolder' = Recovery!None
        /\ recoveryState' = recoveryState /\ recoveryRow' = recoveryRow /\ UNCHANGED recoveryHistory
    BY <1>2 DEF Recovery!RecoverRaises, Recovery!At
  <2>2. /\ RecoveryTyped' /\ RecoveryStays /\ RecoveryGoes(r, "done")
        /\ recoveryHistory'.failed <=> recoveryHistory.failed
    <3>1. "done" \in Recovery!PCs \ {"new"} /\ recoveryState' \in Seq(Recovery!Requests) /\ recoveryRow' \in Recovery!Row
      BY <2>1 DEF Recovery!PCs, RecoveryTyped
    <3> QED
      BY <2>1, <3>1, RecoveryStepped
  <2>3. ASSUME RecoveryGood PROVE RecoveryGood'
    <3>1. RecoveryActs(r, "done")
      BY <2>1, <2>2 DEF RecoveryActs, Recovery!InFlight, Recovery!PCs, Recovery!Requests, Recovery!None
    <3>2. RecoveryAlone' /\ (\A q \in Recovery!Requests \ {r} : RecoveryStep(q)')
      BY <2>3, <3>1, RecoveryAloneStays
    <3>3. RecoveryStep(r) /\ RecoveryFollows
      BY <2>3 DEF RecoveryGood
    <3>4. RecoveryStep(r)'
      BY <2>2 DEF RecoveryStep, RecoveryGoes
    <3>5. RecoveryFollows'
      BY <2>1, <2>2, <3>3 DEF RecoveryFollows, RecoveryStep, RecoverySaved
    <3> QED
      BY <3>2, <3>4, <3>5 DEF RecoveryGood
  <2> QED
    BY <2>2, <2>3
<1> QED
  BY <1>1, <1>2

\* A turn ends: the state has the history's turns and perhaps this one.
LEMMA RecoveryTurns ==
    ASSUME RecoveryTyped, NEW r \in Recovery!Requests, Recovery!EndTurn(r) \/ Recovery!FailStream(r)
    PROVE  RecoveryTyped' /\ RecoveryStays /\ (recoveryReq[r].stream /\ RecoveryGood => RecoveryGood')
<1> DEFINE more == Append(recoveryState, r)
           failed == Recovery!FailStream(r)
           pc == Recovery!AfterTurn(r)
<1>1. /\ recoveryReq[r].pc = "turn" /\ Recovery!Goto(r, pc) /\ recoveryHolder' = recoveryHolder /\ recoveryRow' = recoveryRow
      /\ recoveryState' \in {recoveryState, more} /\ (recoveryState' = more \/ failed)
      /\ (failed /\ Recovery!Failed) \/ (~failed /\ UNCHANGED recoveryHistory)
  BY DEF Recovery!EndTurn, Recovery!FailStream, Recovery!At, Recovery!AfterTurn
<1> HIDE DEF more
<1>f. failed \in BOOLEAN
  BY DEF Recovery!FailStream
<1>t. pc \in Recovery!PCs \ {"new"} /\ (recoveryReq[r].stream => pc = "trace")
  BY DEF Recovery!AfterTurn, Recovery!PCs
<1> HIDE DEF failed, pc
<1>2. /\ RecoveryTyped' /\ RecoveryStays /\ RecoveryGoes(r, pc)
      /\ recoveryHistory'.failed <=> recoveryHistory.failed \/ failed
  <2>1. recoveryState' \in Seq(Recovery!Requests) /\ recoveryRow' \in Recovery!Row
    BY <1>1, RecoveryAppend DEF RecoveryTyped, more
  <2> QED
    BY <1>1, <1>f, <1>t, <2>1, RecoveryStepped
<1>3. ASSUME recoveryReq[r].stream, RecoveryGood PROVE RecoveryGood'
  <2>0. pc = "trace"
    BY <1>3, <1>t
  <2>1. RecoveryActs(r, "trace")
    BY <1>1, <1>2, <2>0 DEF RecoveryActs, Recovery!InFlight, Recovery!PCs
  <2>2. RecoveryAlone' /\ (\A q \in Recovery!Requests \ {r} : RecoveryStep(q)') /\ ~Recovery!AtRest'
    BY <1>3, <2>1, RecoveryAloneStays
  <2>3. RecoveryStep(r) /\ RecoveryFollows
    BY <1>3 DEF RecoveryGood
  <2>4. /\ Recovery!IsInjective(recoveryState) /\ RecoveryNow \subseteq recoveryReq[r].messages
        /\ ~recoveryHistory.failed => RecoveryNow = recoveryReq[r].messages
        /\ RecoverySaved \subseteq recoveryReq[r].messages /\ r \notin recoveryReq[r].messages
    BY <1>1, <1>3, <2>3 DEF RecoveryStep, RecoveryGood, RecoveryAlone
  <2>5. Recovery!ToSet(more) = RecoveryNow \cup {r} /\ Recovery!IsInjective(more)
    BY <2>4, RecoveryTypes, RecoveryAppend DEF RecoveryNow, more
  <2>6. Recovery!IsInjective(recoveryState') /\ RecoveryNow' \subseteq recoveryReq[r].messages \cup {r}
        /\ (~recoveryHistory'.failed => RecoveryNow' = recoveryReq[r].messages \cup {r})
    BY <1>1, <1>2, <2>4, <2>5 DEF RecoveryNow
  <2>7. recoveryReq'[r].messages = recoveryReq[r].messages /\ recoveryReq'[r].pc = "trace" /\ RecoverySaved' = RecoverySaved
    BY <1>1, <1>2, <2>0 DEF RecoveryGoes, RecoverySaved
  <2>8. RecoveryStep(r)'
    BY <2>4, <2>6, <2>7 DEF RecoveryStep
  <2>9. RecoveryFollows'
    BY <1>1, <2>2, <2>3 DEF RecoveryFollows, RecoverySaved
  <2> QED
    BY <2>2, <2>8, <2>9 DEF RecoveryGood
<1> QED
  BY <1>2, <1>3

\* A request ends with a failure, which is noted.
LEMMA RecoveryBreaks ==
    ASSUME RecoveryTyped, NEW r \in Recovery!Requests, Recovery!Abandon(r) \/ Recovery!SaveRaises(r)
    PROVE  RecoveryTyped' /\ RecoveryStays /\ (RecoveryGood => RecoveryGood')
<1>1. /\ Recovery!Goto(r, "done") /\ recoveryState' = recoveryState /\ recoveryRow' = recoveryRow /\ Recovery!Failed
      /\ recoveryHolder' \in {recoveryHolder, Recovery!None} /\ recoveryHolder' # r
      /\ recoveryReq[r].pc = "save" \/ recoveryHolder = r
  BY DEF Recovery!Abandon, Recovery!SaveRaises, Recovery!At, Recovery!Release, Recovery!None, Recovery!Requests
<1>2. /\ RecoveryTyped' /\ RecoveryStays /\ RecoveryGoes(r, "done") /\ recoveryHistory'.failed
  <2>1. "done" \in Recovery!PCs \ {"new"} /\ recoveryState' \in Seq(Recovery!Requests) /\ recoveryRow' \in Recovery!Row
    BY <1>1 DEF Recovery!PCs, RecoveryTyped
  <2>2. TRUE \in BOOLEAN /\ (TRUE /\ Recovery!Failed)
    BY <1>1
  <2> QED
    BY <1>1, <2>1, <2>2, RecoveryStepped
<1>3. ASSUME RecoveryGood PROVE RecoveryGood'
  <2>1. Recovery!InFlight(r)
    BY <1>1, <1>3 DEF RecoveryGood, RecoveryAlone, Recovery!InFlight
  <2>2. RecoveryActs(r, "done")
    BY <1>1, <1>2, <2>1 DEF RecoveryActs, Recovery!PCs
  <2>3. RecoveryAlone' /\ (\A q \in Recovery!Requests \ {r} : RecoveryStep(q)')
    BY <1>3, <2>2, RecoveryAloneStays
  <2>4. RecoveryStep(r)'
    BY <1>2 DEF RecoveryStep, RecoveryGoes
  <2>5. RecoveryFollows'
    BY <1>1, <1>2, <1>3 DEF RecoveryGood, RecoveryFollows, RecoverySaved
  <2> QED
    BY <2>3, <2>4, <2>5 DEF RecoveryGood
<1> QED
  BY <1>2, <1>3

LEMMA RecoverySaveTrace ==
    ASSUME RecoveryTyped, NEW r \in Recovery!Requests, NEW written \in BOOLEAN, Recovery!SaveTrace(r, written)
    PROVE  RecoveryTyped' /\ RecoveryStays /\ (recoveryReq[r].stream /\ RecoveryGood => RecoveryGood')
<1> DEFINE pc == IF recoveryReq[r].stream THEN "save" ELSE "done"
<1>1. /\ recoveryReq[r].pc = "trace" /\ Recovery!Goto(r, pc) /\ recoveryState' = recoveryState /\ recoveryRow' = recoveryRow
      /\ recoveryHolder' = recoveryHolder /\ Recovery!Mark(~written) /\ (~written) \in BOOLEAN
  BY DEF Recovery!SaveTrace, Recovery!At
<1>2. /\ RecoveryTyped' /\ RecoveryStays /\ RecoveryGoes(r, pc) /\ (recoveryHistory'.failed <=> recoveryHistory.failed \/ ~written)
  <2>1. pc \in Recovery!PCs \ {"new"} /\ recoveryState' \in Seq(Recovery!Requests) /\ recoveryRow' \in Recovery!Row
    BY <1>1 DEF Recovery!PCs, RecoveryTyped
  <2> HIDE DEF pc
  <2> QED
    BY <1>1, <2>1, RecoveryStepped
<1>3. ASSUME RecoveryGood, recoveryReq[r].stream PROVE RecoveryGood'
  <2>0. pc = "save"
    BY <1>3
  <2> HIDE DEF pc
  <2>1. RecoveryActs(r, "save")
    BY <1>1, <1>2, <2>0 DEF RecoveryActs, Recovery!InFlight, Recovery!PCs
  <2>2. RecoveryAlone' /\ (\A q \in Recovery!Requests \ {r} : RecoveryStep(q)') /\ ~Recovery!AtRest'
    BY <1>3, <2>1, RecoveryAloneStays
  <2>3. RecoveryStep(r) /\ RecoveryFollows
    BY <1>3 DEF RecoveryGood
  <2>4. RecoveryStep(r)'
    BY <1>1, <1>2, <2>0, <2>3 DEF RecoveryStep, RecoverySaved, RecoveryNow, RecoveryGoes
  <2>5. RecoveryFollows'
    BY <1>1, <2>2, <2>3 DEF RecoveryFollows, RecoverySaved
  <2> QED
    BY <2>2, <2>4, <2>5 DEF RecoveryGood
<1> QED
  BY <1>2, <1>3

LEMMA RecoverySaveSession ==
    ASSUME RecoveryTyped, NEW r \in Recovery!Requests, Recovery!SaveSession(r)
    PROVE  RecoveryTyped' /\ RecoveryStays /\ (recoveryReq[r].stream /\ RecoveryGood => RecoveryGood')
<1> DEFINE pc == IF recoveryReq[r].stream THEN "checkpoint" ELSE "trace"
           m == recoveryReq[r].messages \cup {r}
<1>1. /\ recoveryReq[r].pc = "save" /\ Recovery!Goto(r, pc) /\ recoveryState' = recoveryState
      /\ recoveryRow' = [recoveryRow EXCEPT !.exists = TRUE, !.messages = m]
      /\ recoveryHolder' = recoveryHolder /\ UNCHANGED recoveryHistory
  BY DEF Recovery!SaveSession, Recovery!At
<1>2. m \subseteq Recovery!Requests
  BY RecoveryTypes
<1> HIDE DEF m
<1>3. /\ recoveryRow' \in Recovery!Row /\ recoveryRow'.exists /\ recoveryRow'.messages = m
      /\ recoveryRow'.checkpoint = recoveryRow.checkpoint
  BY <1>1, <1>2 DEF RecoveryTyped, Recovery!Row
<1>4. /\ RecoveryTyped' /\ RecoveryStays /\ RecoveryGoes(r, pc) /\ (recoveryHistory'.failed <=> recoveryHistory.failed)
  <2>1. pc \in Recovery!PCs \ {"new"} /\ recoveryState' \in Seq(Recovery!Requests)
    BY <1>1 DEF Recovery!PCs, RecoveryTyped
  <2> HIDE DEF pc
  <2> QED
    BY <1>1, <1>3, <2>1, RecoveryStepped
<1>5. ASSUME RecoveryGood, recoveryReq[r].stream PROVE RecoveryGood'
  <2>0. pc = "checkpoint"
    BY <1>5
  <2> HIDE DEF pc
  <2>1. RecoveryActs(r, "checkpoint")
    BY <1>1, <1>3, <1>4, <2>0 DEF RecoveryActs, Recovery!InFlight, Recovery!PCs, m
  <2>2. RecoveryAlone' /\ (\A q \in Recovery!Requests \ {r} : RecoveryStep(q)') /\ ~Recovery!AtRest'
    BY <1>5, <2>1, RecoveryAloneStays
  <2>3. RecoveryStep(r) /\ RecoveryFollows
    BY <1>5 DEF RecoveryGood
  <2>4. RecoveryStep(r)'
    BY <1>1, <1>3, <1>4, <2>0, <2>3 DEF RecoveryStep, RecoverySaved, RecoveryNow, RecoveryGoes, m
  <2>5. RecoveryFollows'
    <3>1. RecoverySaved' = RecoverySaved /\ RecoverySaved \subseteq m
      BY <1>1, <1>3, <2>3 DEF RecoveryStep, RecoverySaved, m
    <3> QED
      BY <1>3, <2>2, <2>3, <3>1 DEF RecoveryFollows
  <2> QED
    BY <2>2, <2>4, <2>5 DEF RecoveryGood
<1> QED
  BY <1>4, <1>5

LEMMA RecoveryWriteCheckpoint ==
    ASSUME RecoveryTyped, NEW r \in Recovery!Requests, NEW written \in BOOLEAN, Recovery!WriteCheckpoint(r, written)
    PROVE  RecoveryTyped' /\ RecoveryStays /\ (recoveryReq[r].stream /\ RecoveryGood => RecoveryGood')
<1> DEFINE pc == IF recoveryReq[r].stream THEN "done" ELSE "save"
           c == [state |-> recoveryState, last |-> Recovery!TraceId(r)]
<1>1. /\ recoveryReq[r].pc = "checkpoint" /\ Recovery!Goto(r, pc) /\ recoveryState' = recoveryState
      /\ recoveryRow' = IF written /\ recoveryRow.exists THEN [recoveryRow EXCEPT !.checkpoint = c] ELSE recoveryRow
      /\ recoveryHolder' = Recovery!None /\ Recovery!Mark(~written) /\ (~written) \in BOOLEAN
  BY DEF Recovery!WriteCheckpoint, Recovery!At, Recovery!Release
<1>2. c \in Recovery!Checkpoint /\ c.state = recoveryState
  BY RecoveryTypes DEF Recovery!Checkpoint, Recovery!TraceId
<1> HIDE DEF c
<1>3. /\ recoveryRow' \in Recovery!Row /\ recoveryRow'.messages = recoveryRow.messages
      /\ recoveryRow'.checkpoint = IF written /\ recoveryRow.exists THEN c ELSE recoveryRow.checkpoint
  BY <1>1, <1>2 DEF RecoveryTyped, Recovery!Row
<1>4. /\ RecoveryTyped' /\ RecoveryStays /\ RecoveryGoes(r, pc) /\ (recoveryHistory'.failed <=> recoveryHistory.failed \/ ~written)
  <2>1. pc \in Recovery!PCs \ {"new"} /\ recoveryState' \in Seq(Recovery!Requests)
    BY <1>1 DEF Recovery!PCs, RecoveryTyped
  <2> HIDE DEF pc
  <2> QED
    BY <1>1, <1>3, <2>1, RecoveryStepped
<1>5. ASSUME RecoveryGood, recoveryReq[r].stream PROVE RecoveryGood'
  <2>0. pc = "done"
    BY <1>5
  <2> HIDE DEF pc
  <2>1. RecoveryActs(r, "done")
    BY <1>1, <1>3, <1>4, <2>0 DEF RecoveryActs, Recovery!InFlight, Recovery!PCs, Recovery!Requests, Recovery!None
  <2>2. RecoveryAlone' /\ (\A q \in Recovery!Requests \ {r} : RecoveryStep(q)')
    BY <1>5, <2>1, RecoveryAloneStays
  <2>3. RecoveryStep(r) /\ RecoveryFollows
    BY <1>5 DEF RecoveryGood
  <2>4. RecoveryStep(r)'
    BY <1>4, <2>0 DEF RecoveryStep, RecoveryGoes
  <2>5. /\ Recovery!IsInjective(recoveryState)
        /\ recoveryRow.exists => RecoveryNow \subseteq recoveryRow.messages
        /\ ~recoveryHistory.failed => recoveryRow.exists /\ RecoveryNow = recoveryRow.messages
    BY <1>1, <2>3 DEF RecoveryStep
  <2>6. CASE written /\ recoveryRow.exists
    <3>1. RecoverySaved' = RecoveryNow /\ recoveryRow'.checkpoint.state = recoveryState
      BY <1>2, <1>3, <2>6 DEF RecoverySaved, RecoveryNow
    <3>2. RecoveryFollows'
      BY <1>3, <1>4, <2>5, <2>6, <3>1 DEF RecoveryFollows
    <3> QED
      BY <2>2, <2>4, <3>2 DEF RecoveryGood
  <2>7. CASE ~(written /\ recoveryRow.exists)
    <3>1. recoveryHistory'.failed /\ RecoverySaved' = RecoverySaved
      BY <1>3, <1>4, <2>5, <2>7 DEF RecoverySaved
    <3>2. RecoveryFollows'
      BY <1>3, <2>3, <2>7, <3>1 DEF RecoveryFollows
    <3> QED
      BY <2>2, <2>4, <3>2 DEF RecoveryGood
  <2> QED
    BY <2>6, <2>7
<1> QED
  BY <1>4, <1>5

\* The session is deleted: what was in flight is noted as a failure.
LEMMA RecoveryDeleteSession ==
    ASSUME RecoveryTyped, Recovery!DeleteSession
    PROVE  RecoveryTyped' /\ RecoveryStays /\ (RecoveryGood => RecoveryGood')
<1> DEFINE busy == \E r \in Recovery!Requests : Recovery!InFlight(r)
<1>1. /\ recoveryRow' = Recovery!NoRow /\ Recovery!Mark(busy) /\ busy \in BOOLEAN
      /\ recoveryReq' = recoveryReq /\ recoveryHolder' = recoveryHolder /\ recoveryState' = recoveryState
  BY DEF Recovery!DeleteSession
<1> HIDE DEF busy
<1>2. /\ recoveryHistory' \in [failed : BOOLEAN, overlapped : BOOLEAN]
      /\ recoveryHistory'.overlapped = recoveryHistory.overlapped
      /\ recoveryHistory'.failed <=> recoveryHistory.failed \/ busy
  BY <1>1, RecoveryMarks
<1>3. /\ Recovery!NoRow \in Recovery!Row /\ Recovery!NoRow.messages = {} /\ ~Recovery!NoRow.exists
      /\ Recovery!NoRow.checkpoint.state = << >>
  BY DEF Recovery!NoRow, Recovery!Row, Recovery!NoCheckpoint
<1>4. RecoveryTyped' /\ RecoveryStays
  BY <1>1, <1>2, <1>3 DEF RecoveryTyped, RecoveryStays
<1>5. RecoverySaved' = {} /\ Recovery!IsInjective(recoveryRow'.checkpoint.state) /\ recoveryRow'.messages = {} /\ ~recoveryRow'.exists
  BY <1>1, <1>3, RecoveryEmpty DEF RecoverySaved
<1>6. ASSUME RecoveryGood PROVE RecoveryGood'
  <2>1. RecoveryAlone'
    BY <1>1, <1>5, <1>6 DEF RecoveryGood, RecoveryAlone, Recovery!InFlight
  <2>2. ASSUME NEW r \in Recovery!Requests PROVE RecoveryStep(r)'
    <3>1. recoveryReq[r].pc \notin {"new", "done"} => recoveryHistory'.failed
      BY <1>2 DEF busy, Recovery!InFlight
    <3>2. RecoveryStep(r) /\ RecoveryNow' = RecoveryNow
      BY <1>1, <1>6 DEF RecoveryGood, RecoveryNow
    <3> QED
      BY <1>1, <1>5, <3>1, <3>2 DEF RecoveryStep
  <2>3. RecoveryFollows'
    BY <1>5 DEF RecoveryFollows
  <2> QED
    BY <2>1, <2>2, <2>3 DEF RecoveryGood
<1> QED
  BY <1>4, <1>6

LEMMA RecoveryRestart ==
    ASSUME RecoveryTyped, Recovery!Restart
    PROVE  RecoveryTyped' /\ RecoveryStays /\ (RecoveryGood => RecoveryGood')
<1> DEFINE busy == \E r \in Recovery!Requests : Recovery!InFlight(r)
<1>1. /\ Recovery!Mark(busy) /\ busy \in BOOLEAN /\ recoveryState' = << >> /\ recoveryRow' = recoveryRow
      /\ recoveryHolder' = Recovery!None
  BY DEF Recovery!Restart, Recovery!Release
<1> HIDE DEF busy
<1>2. /\ recoveryHistory' \in [failed : BOOLEAN, overlapped : BOOLEAN]
      /\ recoveryHistory'.overlapped = recoveryHistory.overlapped
      /\ recoveryHistory'.failed <=> recoveryHistory.failed \/ busy
  BY <1>1, RecoveryMarks
<1>3. ASSUME NEW r \in Recovery!Requests
      PROVE  /\ recoveryReq'[r] \in Recovery!Request /\ recoveryReq'[r].stream = recoveryReq[r].stream
             /\ recoveryReq'[r].pc = IF Recovery!InFlight(r) THEN "done" ELSE recoveryReq[r].pc
             /\ recoveryReq'[r].messages \subseteq recoveryReq[r].messages
  <2> DEFINE new == [recoveryReq[r] EXCEPT !.pc = "done", !.messages = {}]
  <2>1. recoveryReq[r] \in Recovery!Request
    BY DEF RecoveryTyped
  <2>2. new \in Recovery!Request /\ new.pc = "done" /\ new.messages = {} /\ new.stream = recoveryReq[r].stream
    BY <2>1 DEF Recovery!Request, Recovery!PCs
  <2>3. recoveryReq'[r] = IF Recovery!InFlight(r) THEN new ELSE recoveryReq[r]
    BY DEF Recovery!Restart
  <2> HIDE DEF new
  <2> QED
    BY <2>1, <2>2, <2>3
<1>4. recoveryReq' \in [Recovery!Requests -> Recovery!Request]
  <2>1. recoveryReq' = [r \in Recovery!Requests |-> recoveryReq'[r]]
    BY DEF Recovery!Restart
  <2> QED
    BY <1>3, <2>1
<1>5. RecoveryTyped' /\ RecoveryStays
  <2>1. RecoveryTyped'
    BY <1>1, <1>2, <1>4, RecoveryEmpty DEF RecoveryTyped
  <2>2. RecoveryStays
    BY <1>2, <1>3 DEF RecoveryStays
  <2> QED
    BY <2>1, <2>2
<1>6. \A r \in Recovery!Requests : recoveryReq'[r].pc \in {"new", "done"} /\ (recoveryReq'[r].pc = "new" => recoveryReq[r].pc = "new")
  BY <1>3 DEF Recovery!InFlight
<1>7. ASSUME RecoveryGood PROVE RecoveryGood'
  <2>1. RecoveryAlone'
    <3>1. \A r \in Recovery!Requests : ~Recovery!InFlight(r)' /\ recoveryHolder' # r
      BY <1>1, <1>6 DEF Recovery!InFlight, Recovery!None, Recovery!Requests
    <3>2. \A r \in Recovery!Requests : recoveryReq'[r].pc \in {"new", "queued", "turn", "trace", "save"} =>
              r \notin recoveryRow'.messages /\ \A q \in Recovery!Requests : r \notin recoveryReq'[q].messages
      BY <1>1, <1>3, <1>6, <1>7 DEF RecoveryGood, RecoveryAlone
    <3> QED
      BY <3>1, <3>2 DEF RecoveryAlone
  <2>2. \A r \in Recovery!Requests : RecoveryStep(r)'
    BY <1>6 DEF RecoveryStep
  <2>3. RecoveryFollows'
    <3>1. ~recoveryHistory'.failed => ~recoveryHistory.failed /\ Recovery!AtRest
      BY <1>2 DEF busy, Recovery!AtRest
    <3> QED
      BY <1>1, <1>7, <3>1 DEF RecoveryGood, RecoveryFollows, RecoverySaved
  <2> QED
    BY <2>1, <2>2, <2>3 DEF RecoveryGood
<1> QED
  BY <1>5, <1>7

\* The traces are no part of it.
LEMMA RecoveryRests ==
    ASSUME RecoveryTyped,
           UNCHANGED << recoveryReq, recoveryHolder, recoveryState, recoveryRow, recoveryHistory >>
    PROVE  RecoveryTyped' /\ RecoveryStays /\ (RecoveryGood => RecoveryGood')
<1>1. RecoveryTyped' /\ RecoveryStays
  BY DEF RecoveryTyped, RecoveryStays
<1>2. ASSUME RecoveryGood PROVE RecoveryGood'
  <2>1. RecoveryAlone'
    BY <1>2 DEF RecoveryGood, RecoveryAlone, Recovery!InFlight
  <2>2. ASSUME NEW r \in Recovery!Requests PROVE RecoveryStep(r)'
    <3>1. RecoveryStep(r)
      BY <1>2 DEF RecoveryGood
    <3> QED
      BY <3>1 DEF RecoveryStep, RecoverySaved, RecoveryNow
  <2>3. RecoveryFollows'
    BY <1>2 DEF RecoveryGood, RecoveryFollows, RecoverySaved, Recovery!AtRest, Recovery!InFlight
  <2> QED
    BY <2>1, <2>2, <2>3 DEF RecoveryGood
<1> QED
  BY <1>1, <1>2

LEMMA RecoveryNext == RecoveryInv /\ [Recovery!Next]_(Recovery!vars) => RecoveryInv'
<1> SUFFICES ASSUME RecoveryInv, [Recovery!Next]_(Recovery!vars) PROVE RecoveryInv'
  OBVIOUS
<1>t. RecoveryTyped
  BY DEF RecoveryInv
<1>g. Recovery!OnlyStreams /\ ~recoveryHistory.overlapped => RecoveryGood
  BY DEF RecoveryInv
<1>s. ASSUME RecoveryStays PROVE Recovery!OnlyStreams' /\ ~recoveryHistory'.overlapped => Recovery!OnlyStreams /\ ~recoveryHistory.overlapped
  BY <1>s DEF RecoveryStays, Recovery!OnlyStreams
<1>e. ASSUME RecoveryTyped', RecoveryStays, RecoveryGood => RecoveryGood' PROVE RecoveryInv'
  BY <1>g, <1>s, <1>e DEF RecoveryInv
<1>r. ASSUME NEW r \in Recovery!Requests, recoveryReq[r].pc # "new",
             RecoveryTyped', RecoveryStays, recoveryReq[r].stream /\ RecoveryGood => RecoveryGood'
      PROVE  RecoveryInv'
  <2>1. Recovery!OnlyStreams => recoveryReq[r].stream
    BY <1>r DEF Recovery!OnlyStreams
  <2> QED
    BY <1>g, <1>s, <1>r, <2>1 DEF RecoveryInv
<1>1. ASSUME NEW r \in Recovery!Requests, NEW stream \in BOOLEAN, NEW tracing \in Recovery!Tracing,
             Recovery!Arrive(r, stream, tracing)
      PROVE  RecoveryInv'
  <2>1. /\ RecoveryTyped'
        /\ RecoveryGood /\ ~recoveryHistory'.overlapped => RecoveryGood'
        /\ recoveryHistory.overlapped => recoveryHistory'.overlapped
        /\ \A q \in Recovery!Requests : recoveryReq[q].pc # "new" =>
              recoveryReq'[q].pc # "new" /\ recoveryReq'[q].stream = recoveryReq[q].stream
    BY <1>t, <1>1, RecoveryArrive
  <2>2. Recovery!OnlyStreams' => Recovery!OnlyStreams
    BY <2>1 DEF Recovery!OnlyStreams
  <2> QED
    BY <1>g, <2>1, <2>2 DEF RecoveryInv
<1>2. ASSUME NEW r \in Recovery!Requests, Recovery!Recover(r) \/ Recovery!RecoverRaises(r) PROVE RecoveryInv'
  BY <1>t, <1>e, <1>2, RecoveryRecover
<1>3. ASSUME NEW r \in Recovery!Requests, Recovery!EndTurn(r) \/ Recovery!FailStream(r) PROVE RecoveryInv'
  <2>1. recoveryReq[r].pc # "new"
    BY <1>3 DEF Recovery!EndTurn, Recovery!FailStream, Recovery!At
  <2> QED
    BY <1>t, <1>r, <1>3, <2>1, RecoveryTurns
<1>4. ASSUME NEW r \in Recovery!Requests, Recovery!Abandon(r) \/ Recovery!SaveRaises(r) PROVE RecoveryInv'
  BY <1>t, <1>e, <1>4, RecoveryBreaks
<1>5. ASSUME NEW r \in Recovery!Requests, NEW written \in BOOLEAN, Recovery!SaveTrace(r, written) PROVE RecoveryInv'
  <2>1. recoveryReq[r].pc # "new"
    BY <1>5 DEF Recovery!SaveTrace, Recovery!At
  <2> QED
    BY <1>t, <1>r, <1>5, <2>1, RecoverySaveTrace
<1>6. ASSUME NEW r \in Recovery!Requests, Recovery!SaveSession(r) PROVE RecoveryInv'
  <2>1. recoveryReq[r].pc # "new"
    BY <1>6 DEF Recovery!SaveSession, Recovery!At
  <2> QED
    BY <1>t, <1>r, <1>6, <2>1, RecoverySaveSession
<1>7. ASSUME NEW r \in Recovery!Requests, NEW written \in BOOLEAN, Recovery!WriteCheckpoint(r, written) PROVE RecoveryInv'
  <2>1. recoveryReq[r].pc # "new"
    BY <1>7 DEF Recovery!WriteCheckpoint, Recovery!At
  <2> QED
    BY <1>t, <1>r, <1>7, <2>1, RecoveryWriteCheckpoint
<1>8. ASSUME Recovery!DeleteSession PROVE RecoveryInv'
  BY <1>t, <1>e, <1>8, RecoveryDeleteSession
<1>9. ASSUME Recovery!Restart PROVE RecoveryInv'
  BY <1>t, <1>e, <1>9, RecoveryRestart
<1>10. ASSUME UNCHANGED << recoveryReq, recoveryHolder, recoveryState, recoveryRow, recoveryHistory >> PROVE RecoveryInv'
  BY <1>t, <1>e, <1>10, RecoveryRests
<1>11. CASE Recovery!DropTraces
  BY <1>10, <1>11 DEF Recovery!DropTraces
<1>12. CASE UNCHANGED Recovery!vars
  BY <1>10, <1>12 DEF Recovery!vars
<1> QED
  BY <1>1, <1>2, <1>3, <1>4, <1>5, <1>6, <1>7, <1>8, <1>9, <1>11, <1>12 DEF Recovery!Next, Recovery!Progress

LEMMA StatesAlwaysFollow == Recovery!Spec => []Recovery!StateFollowsHistory
<1>1. RecoveryInv => Recovery!StateFollowsHistory
  BY DEF RecoveryInv, RecoveryGood, RecoveryFollows, RecoverySaved, Recovery!StateFollowsHistory
<1> QED
  BY <1>1, RecoveryInit, RecoveryNext, PTL DEF Recovery!Spec

-----------------------------------------------------------------------------
(***************************************************************************)
(* Budgets.                                                                *)
(*                                                                         *)
(* A limit is checked when a request comes, and the money is spent when    *)
(* its turn ends.  In between the requests let in are counted: what is     *)
(* spent and the number of those that have spent nothing yet stay below    *)
(* the limit and MaxInFlight together.  For that what is checked has to be *)
(* near to what is spent: they differ by the usage of the one turn that    *)
(* has the lock.                                                           *)
(***************************************************************************)
AccountTyped ==
    /\ accountLimits \in [session : Nat, tenant : Nat]
    /\ accountRequest \in [Accounts!Requests -> Accounts!Request]
    /\ accountLock \in Accounts!Requests \cup {Accounts!Nobody}
    /\ accountRows \in [AccountSessions -> Accounts!Row]
    /\ accountEnforcer \in [seen : [AccountSessions -> Nat], tenant : Nat]
    /\ accountSpent \in [session : [AccountSessions -> Nat], tenant : Nat]
    /\ accountExplained \in [failed : BOOLEAN, deleted : BOOLEAN, sync : BOOLEAN]
    /\ \A r \in Accounts!Requests : accountRequest[r].pc \notin {"new", "done"} => accountRequest[r].session \in AccountSessions

\* A stream has the lock from its turn on, and nobody else has.
AccountAlone ==
    \A r \in Accounts!Requests :
        /\ accountRequest[r].stream
        /\ accountLock = r <=> accountRequest[r].pc \notin {"new", "queued", "done"}

\* What is reported and not in the session's row yet is the usage of the turn that has the lock.
AccountOwes(r, s) ==
    /\ accountRequest[r].session = s /\ accountRequest[r].usage
    /\ accountRequest[r].pc \in {"save", "read", "bill"}

AccountBilled ==
    /\ \A s \in AccountSessions :
        \/ accountSpent.session[s] <= accountRows[s].cost
        \/ /\ accountSpent.session[s] <= accountRows[s].cost + 1
           /\ \E r \in Accounts!Requests : AccountOwes(r, s)
    /\ \A r \in Accounts!Requests : accountRequest[r].pc \in {"read", "bill"} =>
        /\ ~Accounts!RowOf(r).exists => accountSpent.session[accountRequest[r].session] = 0
        /\ Accounts!RowOf(r).exists /\ accountRequest[r].pc = "bill" => accountRequest[r].cost = Accounts!RowOf(r).cost

\* What is reported and not in the tenant's total yet is that usage as well.
AccountTallied ==
    /\ \A s \in AccountSessions : accountEnforcer.seen[s] <= accountRows[s].cost
    /\ \/ accountSpent.tenant <= accountEnforcer.tenant
       \/ /\ accountSpent.tenant <= accountEnforcer.tenant + 1
          /\ \E r \in Accounts!Requests :
                accountRequest[r].usage /\ accountRequest[r].pc \in {"save", "read", "bill", "record", "tally"}
    /\ \A r \in Accounts!Requests :
        /\ accountRequest[r].pc \in {"read", "bill"} => Accounts!RowOf(r).exists
        /\ accountRequest[r].pc \in {"record", "tally"} /\ accountRequest[r].usage =>
              Accounts!RowOf(r).cost > accountEnforcer.seen[accountRequest[r].session]
        /\ accountRequest[r].pc = "tally" => accountRequest[r].cost = Accounts!RowOf(r).cost

\* The requests that were let in and have not spent anything yet.
AccountWaiting == {r \in Accounts!Requests : accountRequest[r].pc \in {"queued", "turn"}}
AccountWaitingFor(s) == {r \in AccountWaiting : accountRequest[r].session = s}

AccountWithin ==
    /\ accountLimits.session > 0 =>
         \A s \in AccountSessions :
            accountSpent.session[s] + Cardinality(AccountWaitingFor(s)) < accountLimits.session + AccountMaxInFlight
    /\ accountLimits.tenant > 0 /\ ~accountExplained.deleted =>
         accountSpent.tenant + Cardinality(AccountWaiting) < accountLimits.tenant + AccountMaxInFlight

AccountInv ==
    /\ AccountTyped
    /\ ~accountExplained.sync /\ ~accountExplained.failed =>
        /\ AccountAlone /\ AccountBilled /\ AccountWithin
        /\ ~accountExplained.deleted => AccountTallied

\* Sets of requests can be counted.
LEMMA AccountCounts ==
    \A S \in SUBSET Accounts!Requests : IsFiniteSet(S) /\ Cardinality(S) \in Nat
<1>1. IsFiniteSet(Accounts!Requests)
  BY FS_Interval, AccountAssumption DEF Accounts!Requests
<1>2. ASSUME NEW S \in SUBSET Accounts!Requests PROVE IsFiniteSet(S) /\ Cardinality(S) \in Nat
  <2>1. IsFiniteSet(S)
    BY <1>1, FS_Subset
  <2> QED
    BY <2>1, FS_CardinalityType
<1> QED
  BY <1>2

LEMMA AccountTypes ==
    ASSUME AccountTyped
    PROVE  /\ accountLimits.session \in Nat /\ accountLimits.tenant \in Nat
           /\ \A s \in AccountSessions : /\ accountSpent.session[s] \in Nat /\ accountRows[s].cost \in Nat
                                         /\ accountRows[s].exists \in BOOLEAN /\ accountEnforcer.seen[s] \in Nat
           /\ accountSpent.tenant \in Nat /\ accountEnforcer.tenant \in Nat
           /\ \A r \in Accounts!Requests : /\ accountRequest[r].cost \in Nat /\ accountRequest[r].usage \in BOOLEAN
                                           /\ accountRequest[r].stream \in BOOLEAN /\ accountRequest[r].pc \in Accounts!PCs
           /\ accountExplained.failed \in BOOLEAN /\ accountExplained.deleted \in BOOLEAN /\ accountExplained.sync \in BOOLEAN
<1>1. accountLimits.session \in Nat /\ accountLimits.tenant \in Nat
  BY DEF AccountTyped
<1>2. \A s \in AccountSessions : accountRows[s].cost \in Nat /\ accountRows[s].exists \in BOOLEAN
  BY DEF AccountTyped, Accounts!Row
<1>3. accountSpent.session \in [AccountSessions -> Nat] /\ accountSpent.tenant \in Nat
  BY DEF AccountTyped
<1>4. accountEnforcer.seen \in [AccountSessions -> Nat] /\ accountEnforcer.tenant \in Nat
  BY DEF AccountTyped
<1>5. \A r \in Accounts!Requests : /\ accountRequest[r].cost \in Nat /\ accountRequest[r].usage \in BOOLEAN
                                   /\ accountRequest[r].stream \in BOOLEAN /\ accountRequest[r].pc \in Accounts!PCs
  BY DEF AccountTyped, Accounts!Request
<1>6. accountExplained.failed \in BOOLEAN /\ accountExplained.deleted \in BOOLEAN /\ accountExplained.sync \in BOOLEAN
  BY DEF AccountTyped
<1> QED
  BY <1>1, <1>2, <1>3, <1>4, <1>5, <1>6

LEMMA AccountInit == Accounts!Init => AccountInv
<1> SUFFICES ASSUME Accounts!Init PROVE AccountInv
  OBVIOUS
<1>1. /\ \A r \in Accounts!Requests : /\ accountRequest[r] = Accounts!NewRequest
                                      /\ accountRequest[r].pc = "new" /\ accountRequest[r].stream
      /\ \A s \in AccountSessions : accountSpent.session[s] = 0 /\ accountEnforcer.seen[s] = 0 /\ accountRows[s].cost = 0
      /\ accountSpent.tenant = 0 /\ accountEnforcer.tenant = 0
      /\ accountExplained.failed = FALSE /\ accountExplained.sync = FALSE
  BY DEF Accounts!Init, Accounts!NewRequest, Accounts!NewEnforcer, Accounts!NoRow
<1>2. AccountTyped
  <2>1. Accounts!NewRequest \in Accounts!Request /\ Accounts!NoRow \in Accounts!Row
    BY DEF Accounts!NewRequest, Accounts!Request, Accounts!PCs, Accounts!NoRow, Accounts!Row
  <2>2. accountEnforcer \in [seen : [AccountSessions -> Nat], tenant : Nat] /\ accountSpent \in [session : [AccountSessions -> Nat], tenant : Nat]
    BY DEF Accounts!Init, Accounts!NewEnforcer
  <2> QED
    BY <1>1, <2>1, <2>2, AccountAssumption DEF Accounts!Init, AccountTyped
<1>3. AccountAlone
  <2>1. \A r \in Accounts!Requests : accountLock # r
    BY DEF Accounts!Init, Accounts!Requests, Accounts!Nobody
  <2> QED
    BY <1>1, <2>1 DEF AccountAlone
<1>4. AccountBilled /\ AccountTallied
  BY <1>1 DEF AccountBilled, AccountTallied
<1>5. AccountWithin
  <2>1. AccountWaiting = {} /\ \A s : AccountWaitingFor(s) = {}
    BY <1>1 DEF AccountWaiting, AccountWaitingFor
  <2>2. Cardinality({}) = 0
    BY FS_EmptySet
  <2>3. accountLimits.session \in Nat /\ accountLimits.tenant \in Nat /\ AccountMaxInFlight \in Nat
    BY <1>2, AccountTypes, AccountAssumption
  <2>4. /\ \A s \in AccountSessions : accountSpent.session[s] + Cardinality(AccountWaitingFor(s)) = 0
        /\ accountSpent.tenant + Cardinality(AccountWaiting) = 0
    BY <1>1, <2>1, <2>2
  <2> QED
    BY <2>3, <2>4 DEF AccountWithin
<1> QED
  BY <1>2, <1>3, <1>4, <1>5 DEF AccountInv

AccountGood ==
    /\ AccountAlone /\ AccountBilled /\ AccountWithin
    /\ ~accountExplained.deleted => AccountTallied

\* A step of one request; the others stand where they stood.
AccountGoes(r, new) ==
    /\ accountRequest' \in [Accounts!Requests -> Accounts!Request]
    /\ accountRequest'[r] = new /\ new \in Accounts!Request
    /\ \A q \in Accounts!Requests \ {r} : accountRequest'[q] = accountRequest[q]

LEMMA AccountChange ==
    ASSUME AccountTyped, NEW r \in Accounts!Requests, NEW new \in Accounts!Request,
           accountRequest' = [accountRequest EXCEPT ![r] = new]
    PROVE  AccountGoes(r, new)
<1>1. accountRequest \in [Accounts!Requests -> Accounts!Request]
  BY DEF AccountTyped
<1> QED
  BY <1>1 DEF AccountGoes

\* Goto: only an ended request forgets what it had.
AccountTo(r, pc, new) ==
    /\ AccountGoes(r, new) /\ new.pc = pc
    /\ IF pc = "done" THEN new.stream
       ELSE /\ new.stream = accountRequest[r].stream /\ new.session = accountRequest[r].session
            /\ new.usage = accountRequest[r].usage

LEMMA AccountGoto ==
    ASSUME AccountTyped, NEW r \in Accounts!Requests, NEW pc \in Accounts!PCs, Accounts!Goto(r, pc)
    PROVE  \E new \in Accounts!Request : AccountTo(r, pc, new)
<1> DEFINE new == IF pc = "done" THEN Accounts!Done ELSE [accountRequest[r] EXCEPT !.pc = pc]
<1>1. accountRequest[r] \in Accounts!Request /\ accountRequest \in [Accounts!Requests -> Accounts!Request]
  BY DEF AccountTyped
<1>2. /\ new \in Accounts!Request /\ new.pc = pc
      /\ IF pc = "done" THEN new.stream
         ELSE /\ new.stream = accountRequest[r].stream /\ new.session = accountRequest[r].session
              /\ new.usage = accountRequest[r].usage
  BY <1>1 DEF Accounts!Request, Accounts!PCs, Accounts!Done, Accounts!NewRequest
<1>3. accountRequest' = [accountRequest EXCEPT ![r] = new]
  BY <1>1 DEF Accounts!Goto
<1> HIDE DEF new
<1>4. AccountGoes(r, new)
  BY <1>2, <1>3, AccountChange
<1>5. AccountTo(r, pc, new)
  BY <1>2, <1>4 DEF AccountTo
<1> QED
  BY <1>2, <1>5

\* From its turn on a request is alone.
AccountRest(q) == accountRequest[q].pc \in {"new", "queued", "done"}

LEMMA AccountHolds ==
    ASSUME AccountTyped, AccountAlone, NEW r \in Accounts!Requests, ~AccountRest(r)
    PROVE  /\ accountLock = r /\ accountRequest[r].stream /\ accountRequest[r].session \in AccountSessions
           /\ \A q \in Accounts!Requests \ {r} : AccountRest(q)
BY DEF AccountTyped, AccountAlone, AccountRest

\* What is owed, seen from the only request that can owe it.
AccountBilledBy(r) ==
    /\ \A s \in AccountSessions :
        \/ accountSpent.session[s] <= accountRows[s].cost
        \/ accountSpent.session[s] <= accountRows[s].cost + 1 /\ AccountOwes(r, s)
    /\ accountRequest[r].pc \in {"read", "bill"} =>
        /\ ~Accounts!RowOf(r).exists => accountSpent.session[accountRequest[r].session] = 0
        /\ Accounts!RowOf(r).exists /\ accountRequest[r].pc = "bill" => accountRequest[r].cost = Accounts!RowOf(r).cost

AccountTalliedBy(r) ==
    /\ \A s \in AccountSessions : accountEnforcer.seen[s] <= accountRows[s].cost
    /\ \/ accountSpent.tenant <= accountEnforcer.tenant
       \/ /\ accountSpent.tenant <= accountEnforcer.tenant + 1
          /\ accountRequest[r].usage /\ accountRequest[r].pc \in {"save", "read", "bill", "record", "tally"}
    /\ accountRequest[r].pc \in {"read", "bill"} => Accounts!RowOf(r).exists
    /\ accountRequest[r].pc \in {"record", "tally"} /\ accountRequest[r].usage =>
          Accounts!RowOf(r).cost > accountEnforcer.seen[accountRequest[r].session]
    /\ accountRequest[r].pc = "tally" => accountRequest[r].cost = Accounts!RowOf(r).cost

LEMMA AccountBy ==
    ASSUME NEW r \in Accounts!Requests, \A q \in Accounts!Requests \ {r} : AccountRest(q)
    PROVE  (AccountBilled => AccountBilledBy(r)) /\ (AccountTallied => AccountTalliedBy(r))
<1>1. \A q \in Accounts!Requests : accountRequest[q].pc \in {"save", "read", "bill", "record", "tally"} => q = r
  BY DEF AccountRest
<1>2. AccountBilled => AccountBilledBy(r)
  BY <1>1 DEF AccountBilled, AccountBilledBy, AccountOwes
<1>3. AccountTallied => AccountTalliedBy(r)
  BY <1>1 DEF AccountTallied, AccountTalliedBy
<1> QED
  BY <1>2, <1>3

LEMMA AccountByThen ==
    ASSUME NEW r \in Accounts!Requests, \A q \in Accounts!Requests \ {r} : AccountRest(q)'
    PROVE  (AccountBilledBy(r)' => AccountBilled') /\ (AccountTalliedBy(r)' => AccountTallied')
<1>1. \A q \in Accounts!Requests : accountRequest'[q].pc \in {"save", "read", "bill", "record", "tally"} => q = r
  BY DEF AccountRest
<1>2. AccountBilledBy(r)' => AccountBilled'
  BY <1>1 DEF AccountBilled, AccountBilledBy, AccountOwes
<1>3. AccountTalliedBy(r)' => AccountTallied'
  BY <1>1 DEF AccountTallied, AccountTalliedBy
<1> QED
  BY <1>2, <1>3

\* Nobody comes and nobody waits less: the bounds stay.
LEMMA AccountWaits ==
    ASSUME AccountTyped, AccountWithin,
           \A q \in Accounts!Requests :
               /\ accountRequest'[q].pc \in {"queued", "turn"} <=> accountRequest[q].pc \in {"queued", "turn"}
               /\ accountRequest[q].pc \in {"queued", "turn"} => accountRequest'[q].session = accountRequest[q].session,
           accountLimits' = accountLimits, accountSpent' = accountSpent, accountExplained.deleted => accountExplained'.deleted
    PROVE  AccountWithin'
<1>1. AccountWaiting' = AccountWaiting /\ \A s \in AccountSessions : AccountWaitingFor(s)' = AccountWaitingFor(s)
  BY DEF AccountWaiting, AccountWaitingFor
<1> QED
  BY <1>1 DEF AccountWithin

\* A step of the request that has the lock, after its turn.
AccountActs(r, new) ==
    /\ accountRequest[r].pc \notin {"new", "queued", "turn", "done"} /\ AccountGoes(r, new)
    /\ new.pc \notin {"new", "queued", "turn"}
    /\ (accountRequest[r].stream => new.stream)
    /\ new.pc # "done" => new.session = accountRequest[r].session
    /\ accountLock' = IF new.pc = "done" THEN Accounts!Nobody ELSE accountLock
    /\ accountLimits' = accountLimits /\ accountSpent' = accountSpent
    /\ accountExplained'.deleted = accountExplained.deleted

LEMMA AccountActsAlone ==
    ASSUME AccountTyped, AccountAlone, AccountWithin, NEW r \in Accounts!Requests, NEW new, AccountActs(r, new)
    PROVE  /\ AccountAlone' /\ AccountWithin' /\ accountRequest[r].session \in AccountSessions
           /\ \A q \in Accounts!Requests \ {r} : AccountRest(q) /\ AccountRest(q)'
<1>1. /\ accountLock = r /\ accountRequest[r].stream /\ accountRequest[r].session \in AccountSessions
      /\ \A q \in Accounts!Requests \ {r} : AccountRest(q)
  BY AccountHolds DEF AccountActs, AccountRest
<1>2. accountRequest'[r] = new /\ \A q \in Accounts!Requests \ {r} : accountRequest'[q] = accountRequest[q]
  BY DEF AccountActs, AccountGoes
<1>3. \A q \in Accounts!Requests \ {r} : AccountRest(q)'
  BY <1>1, <1>2 DEF AccountRest
<1>4. AccountAlone'
  <2>1. accountRequest'[r].stream /\ (accountLock' = r <=> accountRequest'[r].pc \notin {"new", "queued", "done"})
    <3>1. Accounts!Nobody # r
      BY DEF Accounts!Nobody, Accounts!Requests
    <3> QED
      BY <1>1, <1>2, <3>1 DEF AccountActs
  <2>2. \A q \in Accounts!Requests \ {r} : accountLock' # q
    <3>1. \A q \in Accounts!Requests : Accounts!Nobody # q
      BY DEF Accounts!Nobody, Accounts!Requests
    <3> QED
      BY <1>1, <3>1 DEF AccountActs
  <2>3. \A q \in Accounts!Requests \ {r} : accountRequest'[q].stream
    BY <1>2 DEF AccountAlone
  <2> QED
    BY <1>3, <2>1, <2>2, <2>3 DEF AccountAlone, AccountRest
<1>5. AccountWithin'
  <2>1. \A q \in Accounts!Requests :
            /\ accountRequest'[q].pc \in {"queued", "turn"} <=> accountRequest[q].pc \in {"queued", "turn"}
            /\ accountRequest[q].pc \in {"queued", "turn"} => accountRequest'[q].session = accountRequest[q].session
    BY <1>2 DEF AccountActs
  <2> QED
    BY <2>1, AccountWaits DEF AccountActs
<1> QED
  BY <1>1, <1>3, <1>4, <1>5

\* What explains a loss is not forgotten.
AccountKeeps ==
    /\ accountExplained' \in [failed : BOOLEAN, deleted : BOOLEAN, sync : BOOLEAN]
    /\ accountExplained.failed => accountExplained'.failed
    /\ accountExplained.sync => accountExplained'.sync
    /\ accountExplained.deleted => accountExplained'.deleted

AccountStays ==
    /\ AccountTyped' /\ AccountKeeps
    /\ AccountGood /\ ~accountExplained'.failed /\ ~accountExplained'.sync => AccountGood'

LEMMA AccountMarks ==
    ASSUME AccountTyped, NEW failed \in BOOLEAN, Accounts!Mark(failed)
    PROVE  /\ AccountKeeps /\ accountExplained'.deleted = accountExplained.deleted
           /\ accountExplained'.failed <=> accountExplained.failed \/ failed
<1> DEFINE f == accountExplained.failed \/ failed
<1>1. accountExplained \in [failed : BOOLEAN, deleted : BOOLEAN, sync : BOOLEAN]
  BY DEF AccountTyped
<1>2. accountExplained' = [accountExplained EXCEPT !.failed = f] /\ f \in BOOLEAN /\ (f <=> accountExplained.failed \/ failed)
  BY <1>1 DEF Accounts!Mark
<1> HIDE DEF f
<1>3. /\ accountExplained' \in [failed : BOOLEAN, deleted : BOOLEAN, sync : BOOLEAN]
      /\ accountExplained'.deleted = accountExplained.deleted /\ accountExplained'.sync = accountExplained.sync
      /\ accountExplained'.failed = f
  BY <1>1, <1>2
<1> QED
  BY <1>2, <1>3 DEF AccountKeeps

\* What fails is noted, and that is the end of what the invariant says of the money.
LEMMA AccountFails ==
    ASSUME AccountTyped, NEW r \in Accounts!Requests, Accounts!Fail(r) \/ Accounts!RecordFails(r)
    PROVE  AccountStays
<1>1. /\ Accounts!Goto(r, "done") /\ Accounts!Mark(TRUE) /\ accountLock' = IF accountLock = r THEN Accounts!Nobody ELSE accountLock
      /\ UNCHANGED << accountLimits, accountRows, accountEnforcer, accountSpent >>
  BY DEF Accounts!Fail, Accounts!RecordFails, Accounts!Unlock
<1>2. AccountKeeps /\ accountExplained'.failed
  <2>1. TRUE \in BOOLEAN
    OBVIOUS
  <2> QED
    BY <1>1, <2>1, AccountMarks
<1>n. PICK new \in Accounts!Request : AccountTo(r, "done", new)
  <2>1. "done" \in Accounts!PCs
    BY DEF Accounts!PCs
  <2> QED
    BY <1>1, <2>1, AccountGoto
<1>3. AccountGoes(r, new) /\ new.pc = "done"
  BY <1>n DEF AccountTo
<1>5. AccountTyped'
  BY <1>1, <1>2, <1>3 DEF AccountTyped, AccountGoes, AccountKeeps
<1> QED
  BY <1>2, <1>5 DEF AccountStays

LEMMA AccountSave ==
    ASSUME AccountTyped, NEW r \in Accounts!Requests, Accounts!Save(r)
    PROVE  AccountStays
<1> DEFINE s == accountRequest[r].session
           pc == IF accountRequest[r].usage THEN "read" ELSE "record"
<1>1. /\ accountRequest[r].pc = "save" /\ Accounts!Goto(r, pc) /\ s \in AccountSessions
      /\ accountRows' = [accountRows EXCEPT ![s].exists = TRUE]
      /\ UNCHANGED << accountLimits, accountLock, accountEnforcer, accountSpent, accountExplained >>
  BY DEF Accounts!Save, Accounts!At, AccountTyped
<1>2. /\ accountRows' \in [AccountSessions -> Accounts!Row] /\ accountRows'[s].exists
      /\ \A t \in AccountSessions : accountRows'[t].cost = accountRows[t].cost
  BY <1>1 DEF AccountTyped, Accounts!Row
<1>p. pc \in Accounts!PCs /\ pc \in {"read", "record"} /\ (pc = "read" <=> accountRequest[r].usage)
  BY DEF Accounts!PCs
<1> HIDE DEF pc
<1>n. PICK new \in Accounts!Request : AccountTo(r, pc, new)
  BY <1>1, <1>p, AccountGoto
<1>3. /\ AccountGoes(r, new) /\ new.pc = pc /\ new.stream = accountRequest[r].stream
          /\ new.session = accountRequest[r].session /\ new.usage = accountRequest[r].usage
  BY <1>n, <1>p DEF AccountTo
<1>4. AccountTyped' /\ AccountKeeps
  <2>1. AccountTyped'
    BY <1>1, <1>2, <1>3 DEF AccountTyped, AccountGoes
  <2> QED
    BY <1>1, <2>1 DEF AccountKeeps, AccountTyped
<1>5. ASSUME AccountGood PROVE AccountGood'
  <2>1. AccountActs(r, new)
    BY <1>1, <1>3, <1>p DEF AccountActs
  <2>2. AccountAlone' /\ AccountWithin' /\ \A q \in Accounts!Requests \ {r} : AccountRest(q) /\ AccountRest(q)'
    BY <1>5, <2>1, AccountActsAlone DEF AccountGood
  <2>3. AccountBilledBy(r) /\ (~accountExplained.deleted => AccountTalliedBy(r))
    BY <1>5, <2>2, AccountBy DEF AccountGood
  <2>4. accountRequest'[r] = new
    BY <1>3 DEF AccountGoes
  <2>5. AccountBilledBy(r)'
    BY <1>1, <1>2, <1>3, <1>p, <2>3, <2>4 DEF AccountBilledBy, AccountOwes, Accounts!RowOf
  <2>6. ~accountExplained.deleted => AccountTalliedBy(r)'
    BY <1>1, <1>2, <1>3, <1>p, <2>3, <2>4 DEF AccountTalliedBy, Accounts!RowOf
  <2> QED
    BY <1>1, <2>2, <2>5, <2>6, AccountByThen DEF AccountGood
<1> QED
  BY <1>4, <1>5 DEF AccountStays

LEMMA AccountReadCost ==
    ASSUME AccountTyped, NEW r \in Accounts!Requests, NEW read \in BOOLEAN, Accounts!ReadCost(r, read)
    PROVE  AccountStays
<1> DEFINE s == accountRequest[r].session
           cost == IF read THEN accountRows[s].cost ELSE 0
           new == [accountRequest[r] EXCEPT !.cost = cost, !.pc = "bill"]
<1>1. /\ accountRequest[r].pc = "read" /\ s \in AccountSessions /\ Accounts!Mark(~read)
      /\ UNCHANGED << accountLimits, accountLock, accountRows, accountEnforcer, accountSpent >>
  BY DEF Accounts!ReadCost, Accounts!At, AccountTyped
<1>c. cost \in Nat
  BY <1>1, AccountTypes
<1>2. accountRequest' = [accountRequest EXCEPT ![r] = new]
  BY DEF Accounts!ReadCost, Accounts!RowOf, AccountTyped
<1>3. /\ new \in Accounts!Request /\ new.pc = "bill" /\ new.cost = cost /\ new.usage = accountRequest[r].usage
      /\ new.stream = accountRequest[r].stream /\ new.session = s
  <2>1. accountRequest[r] \in Accounts!Request
    BY DEF AccountTyped
  <2> HIDE DEF cost
  <2> QED
    BY <1>c, <2>1 DEF Accounts!Request, Accounts!PCs
<1> HIDE DEF new
<1>4. AccountGoes(r, new)
  BY <1>2, <1>3, AccountChange
<1>5. AccountKeeps /\ accountExplained'.deleted = accountExplained.deleted /\ (~read => accountExplained'.failed)
  <2>1. (~read) \in BOOLEAN
    OBVIOUS
  <2> QED
    BY <1>1, <2>1, AccountMarks
<1>6. AccountTyped'
  BY <1>1, <1>3, <1>4, <1>5 DEF AccountTyped, AccountGoes, AccountKeeps
<1>7. ASSUME AccountGood, read PROVE AccountGood'
  <2>1. AccountActs(r, new)
    BY <1>1, <1>3, <1>4, <1>5 DEF AccountActs
  <2>2. AccountAlone' /\ AccountWithin' /\ \A q \in Accounts!Requests \ {r} : AccountRest(q) /\ AccountRest(q)'
    BY <1>7, <2>1, AccountActsAlone DEF AccountGood
  <2>3. AccountBilledBy(r) /\ (~accountExplained.deleted => AccountTalliedBy(r))
    BY <1>7, <2>2, AccountBy DEF AccountGood
  <2>4. accountRequest'[r] = new /\ new.cost = accountRows[s].cost
    BY <1>3, <1>4, <1>7 DEF AccountGoes
  <2>5. AccountBilledBy(r)'
    BY <1>1, <1>3, <2>3, <2>4 DEF AccountBilledBy, AccountOwes, Accounts!RowOf
  <2>6. ~accountExplained.deleted => AccountTalliedBy(r)'
    BY <1>1, <1>3, <2>3, <2>4 DEF AccountTalliedBy, Accounts!RowOf
  <2> QED
    BY <1>5, <2>2, <2>5, <2>6, AccountByThen DEF AccountGood
<1> QED
  BY <1>5, <1>6, <1>7 DEF AccountStays

LEMMA AccountBill ==
    ASSUME AccountTyped, NEW r \in Accounts!Requests, NEW written \in BOOLEAN, Accounts!Bill(r, written)
    PROVE  AccountStays
<1> DEFINE s == accountRequest[r].session
           cost == accountRequest[r].cost + 1
           goes == written /\ accountRows[s].exists
<1>1. /\ accountRequest[r].pc = "bill" /\ s \in AccountSessions /\ Accounts!Mark(~written) /\ Accounts!Goto(r, "record")
      /\ accountRows' = IF goes THEN [accountRows EXCEPT ![s].cost = cost] ELSE accountRows
      /\ UNCHANGED << accountLimits, accountLock, accountEnforcer, accountSpent >>
  BY DEF Accounts!Bill, Accounts!At, Accounts!RowOf, AccountTyped
<1>c. cost \in Nat /\ accountRequest[r].cost \in Nat
  BY AccountTypes
<1>2. /\ accountRows' \in [AccountSessions -> Accounts!Row] /\ (goes => accountRows'[s].cost = cost)
      /\ ~goes => accountRows' = accountRows
      /\ \A t \in AccountSessions \ {s} : accountRows'[t] = accountRows[t]
  <2> HIDE DEF cost
  <2> QED
    BY <1>1, <1>c DEF AccountTyped, Accounts!Row
<1>n. PICK new \in Accounts!Request : AccountTo(r, "record", new)
  <2>1. "record" \in Accounts!PCs
    BY DEF Accounts!PCs
  <2>2. Accounts!Goto(r, "record")
    BY <1>1
  <2> QED
    BY <2>1, <2>2, AccountGoto
<1>3. /\ AccountGoes(r, new) /\ new.pc = "record" /\ new.stream = accountRequest[r].stream
          /\ new.session = accountRequest[r].session /\ new.usage = accountRequest[r].usage
  BY <1>n DEF AccountTo
<1>5. AccountKeeps /\ accountExplained'.deleted = accountExplained.deleted /\ (~written => accountExplained'.failed)
  <2>1. (~written) \in BOOLEAN
    OBVIOUS
  <2> QED
    BY <1>1, <2>1, AccountMarks
<1>6. AccountTyped'
  BY <1>1, <1>2, <1>3, <1>5 DEF AccountTyped, AccountGoes, AccountKeeps
<1>7. ASSUME AccountGood, written PROVE AccountGood'
  <2>1. AccountActs(r, new)
    BY <1>1, <1>3, <1>5 DEF AccountActs
  <2>2. AccountAlone' /\ AccountWithin' /\ \A q \in Accounts!Requests \ {r} : AccountRest(q) /\ AccountRest(q)'
    BY <1>7, <2>1, AccountActsAlone DEF AccountGood
  <2>3. AccountBilledBy(r) /\ (~accountExplained.deleted => AccountTalliedBy(r))
    BY <1>7, <2>2, AccountBy DEF AccountGood
  <2>4. accountRequest'[r] = new
    BY <1>3 DEF AccountGoes
  <2>c. /\ \A t \in AccountSessions : accountRows[t].cost \in Nat /\ accountSpent.session[t] \in Nat /\ accountEnforcer.seen[t] \in Nat
        /\ accountSpent.tenant \in Nat /\ accountEnforcer.tenant \in Nat
    BY AccountTypes
  <2>p. accountRows[s].exists => goes
    BY <1>7
  <2>d. accountRows[s].exists => accountRequest[r].cost = accountRows[s].cost /\ accountRows'[s].cost = accountRows[s].cost + 1
    BY <1>1, <1>2, <2>3, <2>p DEF AccountBilledBy, Accounts!RowOf
  <2>e. ~accountRows[s].exists => accountSpent.session[s] = 0 /\ accountRows'[s].cost = accountRows[s].cost
    BY <1>1, <1>2, <2>3 DEF AccountBilledBy, Accounts!RowOf
  <2>5. AccountBilledBy(r)'
    <3>1. ASSUME NEW t \in AccountSessions PROVE accountSpent.session[t] <= accountRows'[t].cost
      <4>1. CASE t = s
        BY <2>c, <2>d, <2>e, <2>3, <4>1 DEF AccountBilledBy
      <4>2. CASE t # s
        BY <1>2, <2>3, <4>2 DEF AccountBilledBy, AccountOwes
      <4> QED
        BY <4>1, <4>2
    <3> QED
      BY <1>1, <1>3, <2>4, <3>1 DEF AccountBilledBy
  <2>6. ASSUME ~accountExplained.deleted PROVE AccountTalliedBy(r)'
    <3>0. AccountTalliedBy(r) /\ accountRows[s].exists
      BY <1>1, <2>3, <2>6 DEF AccountTalliedBy, Accounts!RowOf
    <3>1. accountEnforcer.seen[s] < accountRows'[s].cost
      BY <1>1, <2>c, <2>d, <3>0 DEF AccountTalliedBy
    <3>2. \A t \in AccountSessions : accountEnforcer.seen[t] <= accountRows'[t].cost
      <4>1. accountRows'[s].cost \in Nat
        BY <2>c, <2>d, <3>0, <1>1
      <4> QED
        BY <1>1, <1>2, <2>c, <3>0, <3>1, <4>1 DEF AccountTalliedBy
    <3> QED
      BY <1>1, <1>3, <2>4, <3>0, <3>1, <3>2 DEF AccountTalliedBy, Accounts!RowOf
  <2> QED
    BY <1>5, <2>2, <2>5, <2>6, AccountByThen DEF AccountGood
<1> QED
  BY <1>5, <1>6, <1>7 DEF AccountStays

LEMMA AccountRecord ==
    ASSUME AccountTyped, NEW r \in Accounts!Requests, Accounts!Record(r)
    PROVE  AccountStays
<1> DEFINE s == accountRequest[r].session
           cost == accountRows[s].cost
           new == [accountRequest[r] EXCEPT !.cost = cost, !.pc = "tally"]
<1>1. /\ accountRequest[r].pc = "record" /\ s \in AccountSessions
      /\ UNCHANGED << accountLimits, accountLock, accountRows, accountEnforcer, accountSpent, accountExplained >>
  BY DEF Accounts!Record, Accounts!At, AccountTyped
<1>c. cost \in Nat
  BY <1>1, AccountTypes
<1>2. accountRequest' = [accountRequest EXCEPT ![r] = new]
  BY DEF Accounts!Record, Accounts!RowOf, AccountTyped
<1>3. /\ new \in Accounts!Request /\ new.pc = "tally" /\ new.cost = cost /\ new.usage = accountRequest[r].usage
      /\ new.stream = accountRequest[r].stream /\ new.session = s
  <2>1. accountRequest[r] \in Accounts!Request
    BY DEF AccountTyped
  <2> HIDE DEF cost
  <2> QED
    BY <1>c, <2>1 DEF Accounts!Request, Accounts!PCs
<1> HIDE DEF new
<1>4. AccountGoes(r, new)
  BY <1>2, <1>3, AccountChange
<1>5. AccountTyped' /\ AccountKeeps
  <2>1. AccountTyped'
    BY <1>1, <1>3, <1>4 DEF AccountTyped, AccountGoes
  <2> QED
    BY <1>1, <2>1 DEF AccountKeeps, AccountTyped
<1>6. ASSUME AccountGood PROVE AccountGood'
  <2>1. AccountActs(r, new)
    BY <1>1, <1>3, <1>4 DEF AccountActs
  <2>2. AccountAlone' /\ AccountWithin' /\ \A q \in Accounts!Requests \ {r} : AccountRest(q) /\ AccountRest(q)'
    BY <1>6, <2>1, AccountActsAlone DEF AccountGood
  <2>3. AccountBilledBy(r) /\ (~accountExplained.deleted => AccountTalliedBy(r))
    BY <1>6, <2>2, AccountBy DEF AccountGood
  <2>4. accountRequest'[r] = new
    BY <1>4 DEF AccountGoes
  <2>5. AccountBilledBy(r)'
    BY <1>1, <1>3, <2>3, <2>4 DEF AccountBilledBy, AccountOwes, Accounts!RowOf
  <2>6. ~accountExplained.deleted => AccountTalliedBy(r)'
    BY <1>1, <1>3, <2>3, <2>4 DEF AccountTalliedBy, Accounts!RowOf
  <2> QED
    BY <1>1, <2>2, <2>5, <2>6, AccountByThen DEF AccountGood
<1> QED
  BY <1>5, <1>6 DEF AccountStays

\* What a session has grown by counts for the tenant, and that is what was owed at least.
LEMMA AccountTally ==
    ASSUME AccountTyped, NEW r \in Accounts!Requests, Accounts!Tally(r)
    PROVE  AccountStays
<1> DEFINE s == accountRequest[r].session
           cost == accountRequest[r].cost
           more == IF cost > accountEnforcer.seen[s] THEN cost - accountEnforcer.seen[s] ELSE 0
           seen == [accountEnforcer.seen EXCEPT ![s] = cost]
           tenant == accountEnforcer.tenant + more
<1>1. /\ accountRequest[r].pc = "tally" /\ s \in AccountSessions /\ Accounts!Goto(r, "done")
      /\ accountLock' = IF accountLock = r THEN Accounts!Nobody ELSE accountLock
      /\ accountEnforcer' = [seen |-> seen, tenant |-> tenant]
      /\ UNCHANGED << accountLimits, accountRows, accountSpent, accountExplained >>
  BY DEF Accounts!Tally, Accounts!At, Accounts!Unlock, AccountTyped
<1>c. /\ cost \in Nat /\ accountEnforcer.seen[s] \in Nat /\ accountEnforcer.tenant \in Nat
      /\ accountEnforcer.seen \in [AccountSessions -> Nat]
  BY <1>1, AccountTypes DEF AccountTyped
<1>d. more \in Nat /\ (cost > accountEnforcer.seen[s] => more >= 1)
  BY <1>c
<1>e. /\ seen \in [AccountSessions -> Nat] /\ seen[s] = cost
      /\ \A t \in AccountSessions \ {s} : seen[t] = accountEnforcer.seen[t]
  BY <1>1, <1>c
<1>f. tenant \in Nat /\ tenant >= accountEnforcer.tenant /\ (more >= 1 => tenant >= accountEnforcer.tenant + 1)
  BY <1>c, <1>d
<1> HIDE DEF more, seen, tenant
<1>n. PICK new \in Accounts!Request : AccountTo(r, "done", new)
  <2>1. "done" \in Accounts!PCs
    BY DEF Accounts!PCs
  <2>2. Accounts!Goto(r, "done")
    BY <1>1
  <2> QED
    BY <2>1, <2>2, AccountGoto
<1>2. AccountGoes(r, new) /\ new.pc = "done" /\ new.stream
  BY <1>n DEF AccountTo
<1>5. AccountTyped' /\ AccountKeeps
  <2>1. AccountTyped'
    BY <1>1, <1>2, <1>e, <1>f DEF AccountTyped, AccountGoes
  <2> QED
    BY <1>1, <2>1 DEF AccountKeeps, AccountTyped
<1>6. ASSUME AccountGood PROVE AccountGood'
  <2>0. accountLock = r
    BY <1>1, <1>6, AccountHolds DEF AccountGood, AccountRest
  <2>1. AccountActs(r, new)
    BY <1>1, <1>2, <2>0 DEF AccountActs
  <2>2. AccountAlone' /\ AccountWithin' /\ \A q \in Accounts!Requests \ {r} : AccountRest(q) /\ AccountRest(q)'
    BY <1>6, <2>1, AccountActsAlone DEF AccountGood
  <2>3. AccountBilledBy(r) /\ (~accountExplained.deleted => AccountTalliedBy(r))
    BY <1>6, <2>2, AccountBy DEF AccountGood
  <2>4. accountRequest'[r] = new
    BY <1>2 DEF AccountGoes
  <2>5. AccountBilledBy(r)'
    BY <1>1, <1>2, <2>3, <2>4 DEF AccountBilledBy, AccountOwes, Accounts!RowOf
  <2>6. ASSUME ~accountExplained.deleted PROVE AccountTalliedBy(r)'
    <3>1. AccountTalliedBy(r) /\ cost = accountRows[s].cost
      BY <1>1, <2>3, <2>6 DEF AccountTalliedBy, Accounts!RowOf
    <3>2. \A t \in AccountSessions : accountEnforcer'.seen[t] <= accountRows'[t].cost
      BY <1>1, <1>c, <1>e, <3>1 DEF AccountTalliedBy
    <3>3. accountRequest[r].usage => cost > accountEnforcer.seen[s]
      BY <1>1, <3>1 DEF AccountTalliedBy, Accounts!RowOf
    <3>4. accountSpent.tenant <= tenant
      BY <1>c, <1>d, <1>f, <3>1, <3>3, AccountTypes DEF AccountTalliedBy
    <3> QED
      BY <1>1, <1>2, <2>4, <3>2, <3>4 DEF AccountTalliedBy
  <2> QED
    BY <1>1, <2>2, <2>5, <2>6, AccountByThen DEF AccountGood
<1> QED
  BY <1>5, <1>6 DEF AccountStays

\* The lock is free: nobody is in a turn or after it.
LEMMA AccountStartTurn ==
    ASSUME AccountTyped, NEW r \in Accounts!Requests, Accounts!StartTurn(r)
    PROVE  AccountStays
<1>1. /\ accountRequest[r].pc = "queued" /\ accountLock = Accounts!Nobody /\ accountLock' = r /\ Accounts!Goto(r, "turn")
      /\ UNCHANGED << accountLimits, accountRows, accountEnforcer, accountSpent, accountExplained >>
  BY DEF Accounts!StartTurn, Accounts!At
<1>n. PICK new \in Accounts!Request : AccountTo(r, "turn", new)
  <2>1. "turn" \in Accounts!PCs
    BY DEF Accounts!PCs
  <2>2. Accounts!Goto(r, "turn")
    BY <1>1
  <2> QED
    BY <2>1, <2>2, AccountGoto
<1>2. /\ AccountGoes(r, new) /\ new.pc = "turn" /\ new.stream = accountRequest[r].stream
          /\ new.session = accountRequest[r].session
  BY <1>n DEF AccountTo
<1>3. accountRequest'[r] = new /\ \A q \in Accounts!Requests \ {r} : accountRequest'[q] = accountRequest[q]
  BY <1>2 DEF AccountGoes
<1>5. AccountTyped' /\ AccountKeeps
  <2>1. AccountTyped'
    BY <1>1, <1>2 DEF AccountTyped, AccountGoes
  <2> QED
    BY <1>1, <2>1 DEF AccountKeeps, AccountTyped
<1>6. ASSUME AccountGood PROVE AccountGood'
  <2>0. \A q \in Accounts!Requests : AccountRest(q)
    <3>1. \A q \in Accounts!Requests : accountLock # q
      BY <1>1 DEF Accounts!Nobody, Accounts!Requests
    <3> QED
      BY <1>6, <3>1 DEF AccountGood, AccountAlone, AccountRest
  <2>1. \A q \in Accounts!Requests \ {r} : AccountRest(q)'
    BY <1>3, <2>0 DEF AccountRest
  <2>2. AccountAlone'
    BY <1>1, <1>2, <1>3, <1>6, <2>1 DEF AccountGood, AccountAlone, AccountRest
  <2>3. AccountWithin'
    <3>1. \A q \in Accounts!Requests :
              /\ accountRequest'[q].pc \in {"queued", "turn"} <=> accountRequest[q].pc \in {"queued", "turn"}
              /\ accountRequest'[q].session = accountRequest[q].session
      BY <1>1, <1>2, <1>3
    <3> QED
      BY <1>1, <1>6, <3>1, AccountWaits DEF AccountGood
  <2>4. AccountBilledBy(r) /\ (~accountExplained.deleted => AccountTalliedBy(r))
    BY <1>6, <2>0, AccountBy DEF AccountGood
  <2>5. AccountBilledBy(r)' /\ (~accountExplained.deleted => AccountTalliedBy(r)')
    BY <1>1, <1>2, <1>3, <2>4 DEF AccountBilledBy, AccountTalliedBy, AccountOwes, Accounts!RowOf
  <2> QED
    BY <1>1, <2>1, <2>2, <2>3, <2>5, AccountByThen DEF AccountGood
<1> QED
  BY <1>5, <1>6 DEF AccountStays

\* A turn ends: what it reports is spent by one request less.
LEMMA AccountEndTurn ==
    ASSUME AccountTyped, NEW r \in Accounts!Requests, NEW usage \in BOOLEAN, Accounts!EndTurn(r, usage)
    PROVE  AccountStays
<1> DEFINE s == accountRequest[r].session
           new == [accountRequest[r] EXCEPT !.usage = usage, !.pc = "save"]
           more == accountSpent.session[s] + 1
           spent == [accountSpent.session EXCEPT ![s] = more]
<1>1. /\ accountRequest[r].pc = "turn" /\ s \in AccountSessions
      /\ accountLock' = IF accountRequest[r].stream THEN r ELSE Accounts!Nobody
      /\ accountSpent' = IF usage THEN [session |-> spent, tenant |-> accountSpent.tenant + 1] ELSE accountSpent
      /\ UNCHANGED << accountLimits, accountRows, accountEnforcer, accountExplained >>
  BY DEF Accounts!EndTurn, Accounts!At, AccountTyped
<1>2. accountRequest' = [accountRequest EXCEPT ![r] = new]
  BY DEF Accounts!EndTurn, AccountTyped
<1>3. /\ new \in Accounts!Request /\ new.pc = "save" /\ new.usage = usage
      /\ new.stream = accountRequest[r].stream /\ new.session = s
  <2>1. accountRequest[r] \in Accounts!Request
    BY DEF AccountTyped
  <2> QED
    BY <2>1 DEF Accounts!Request, Accounts!PCs
<1> HIDE DEF new
<1>4. AccountGoes(r, new)
  BY <1>2, <1>3, AccountChange
<1>c. /\ accountSpent.session \in [AccountSessions -> Nat] /\ accountSpent.tenant \in Nat
      /\ accountSpent \in [session : [AccountSessions -> Nat], tenant : Nat] /\ more \in Nat
  BY <1>1 DEF AccountTyped
<1>d. /\ spent \in [AccountSessions -> Nat] /\ spent[s] = accountSpent.session[s] + 1
      /\ \A t \in AccountSessions \ {s} : spent[t] = accountSpent.session[t]
  BY <1>1, <1>c
<1> HIDE DEF more, spent
<1>e. /\ accountSpent' \in [session : [AccountSessions -> Nat], tenant : Nat]
      /\ \A t \in AccountSessions \ {s} : accountSpent'.session[t] = accountSpent.session[t]
      /\ IF usage THEN /\ accountSpent'.session[s] = accountSpent.session[s] + 1 /\ accountSpent'.tenant = accountSpent.tenant + 1
                  ELSE accountSpent' = accountSpent
  BY <1>1, <1>c, <1>d
<1>5. AccountTyped' /\ AccountKeeps
  <2>1. accountLock' \in Accounts!Requests \cup {Accounts!Nobody}
    BY <1>1
  <2>2. AccountTyped'
    BY <1>1, <1>3, <1>4, <1>e, <2>1 DEF AccountTyped, AccountGoes
  <2> QED
    BY <1>1, <2>2 DEF AccountKeeps, AccountTyped
<1>6. ASSUME AccountGood PROVE AccountGood'
  <2>0. /\ accountLock = r /\ accountRequest[r].stream
        /\ \A q \in Accounts!Requests \ {r} : AccountRest(q)
    BY <1>1, <1>6, AccountHolds DEF AccountGood, AccountRest
  <2>1. accountRequest'[r] = new /\ \A q \in Accounts!Requests \ {r} : accountRequest'[q] = accountRequest[q] /\ AccountRest(q)'
    BY <1>4, <2>0 DEF AccountGoes, AccountRest
  <2>2. AccountAlone'
    BY <1>1, <1>3, <1>6, <2>0, <2>1 DEF AccountGood, AccountAlone, AccountRest
  <2>3. AccountWithin'
    <3>1. r \in AccountWaiting /\ AccountWaiting' = AccountWaiting \ {r}
      BY <1>1, <1>3, <2>1 DEF AccountWaiting
    <3>2. \A t \in AccountSessions : AccountWaitingFor(t)' = AccountWaitingFor(t) \ {r} /\ (t = s <=> r \in AccountWaitingFor(t))
      BY <1>1, <1>3, <2>1 DEF AccountWaiting, AccountWaitingFor
    <3>3. /\ AccountWaiting \in SUBSET Accounts!Requests
          /\ \A t \in AccountSessions : AccountWaitingFor(t) \in SUBSET Accounts!Requests
      BY DEF AccountWaiting, AccountWaitingFor
    <3>4. Cardinality(AccountWaiting) \in Nat /\ Cardinality(AccountWaiting') = Cardinality(AccountWaiting) - 1
      BY <3>1, <3>3, AccountCounts, FS_RemoveElement
    <3>5. \A t \in AccountSessions :
              /\ Cardinality(AccountWaitingFor(t)) \in Nat
              /\ Cardinality(AccountWaitingFor(t)') = IF t = s THEN Cardinality(AccountWaitingFor(t)) - 1 ELSE Cardinality(AccountWaitingFor(t))
      BY <3>2, <3>3, AccountCounts, FS_RemoveElement
    <3>6. \A t \in AccountSessions : accountSpent'.session[t] + Cardinality(AccountWaitingFor(t)') <= accountSpent.session[t] + Cardinality(AccountWaitingFor(t))
      <4>1. ASSUME NEW t \in AccountSessions PROVE accountSpent.session[t] \in Nat
        BY <1>c
      <4> QED
        BY <1>e, <3>5, <4>1
    <3>7. accountSpent'.tenant + Cardinality(AccountWaiting') <= accountSpent.tenant + Cardinality(AccountWaiting)
      BY <1>c, <1>e, <3>4
    <3>8. /\ accountLimits.session \in Nat /\ accountLimits.tenant \in Nat /\ AccountMaxInFlight \in Nat
          /\ accountSpent'.tenant \in Nat /\ \A t \in AccountSessions : accountSpent.session[t] \in Nat /\ accountSpent'.session[t] \in Nat
      BY <1>c, <1>e, AccountTypes, AccountAssumption
    <3>9. Cardinality(AccountWaiting') \in Int /\ \A t \in AccountSessions : Cardinality(AccountWaitingFor(t)') \in Int
      BY <3>4, <3>5
    <3>10. accountLimits.session > 0 => \A t \in AccountSessions :
               accountSpent'.session[t] + Cardinality(AccountWaitingFor(t)') < accountLimits.session + AccountMaxInFlight
      BY <1>6, <3>5, <3>6, <3>8, <3>9 DEF AccountGood, AccountWithin
    <3>11. accountLimits.tenant > 0 /\ ~accountExplained.deleted =>
               accountSpent'.tenant + Cardinality(AccountWaiting') < accountLimits.tenant + AccountMaxInFlight
      BY <1>6, <1>c, <3>4, <3>7, <3>8, <3>9 DEF AccountGood, AccountWithin
    <3> QED
      BY <1>1, <3>10, <3>11 DEF AccountWithin
  <2>4. AccountBilledBy(r) /\ (~accountExplained.deleted => AccountTalliedBy(r))
    BY <1>6, <2>0, AccountBy DEF AccountGood
  <2>c. \A t \in AccountSessions : accountSpent.session[t] \in Nat /\ accountRows[t].cost \in Nat
    BY AccountTypes
  <2>5. AccountBilledBy(r)'
    <3>1. \A t \in AccountSessions : accountSpent.session[t] <= accountRows[t].cost
      BY <1>1, <2>4 DEF AccountBilledBy, AccountOwes
    <3>2. ASSUME NEW t \in AccountSessions
          PROVE  \/ accountSpent'.session[t] <= accountRows'[t].cost
                 \/ accountSpent'.session[t] <= accountRows'[t].cost + 1 /\ AccountOwes(r, t)'
      <4>1. CASE t = s /\ usage
        <5>1. AccountOwes(r, t)'
          BY <1>3, <2>1, <4>1 DEF AccountOwes
        <5>2. accountSpent'.session[t] = accountSpent.session[t] + 1 /\ accountRows'[t].cost = accountRows[t].cost
          BY <1>1, <1>e, <4>1
        <5> QED
          BY <2>c, <3>1, <5>1, <5>2
      <4>2. CASE ~(t = s /\ usage)
        BY <1>1, <1>e, <3>1, <4>2
      <4> QED
        BY <4>1, <4>2
    <3> QED
      BY <1>3, <2>1, <3>2 DEF AccountBilledBy
  <2>6. ASSUME ~accountExplained.deleted PROVE AccountTalliedBy(r)'
    <3>1. AccountTalliedBy(r) /\ accountSpent.tenant \in Nat /\ accountEnforcer.tenant \in Nat
      BY <2>4, <2>6, AccountTypes
    <3>2. accountSpent.tenant <= accountEnforcer.tenant
      BY <1>1, <3>1 DEF AccountTalliedBy
    <3> QED
      BY <1>1, <1>3, <1>e, <2>1, <3>1, <3>2 DEF AccountTalliedBy
  <2> QED
    BY <1>1, <2>1, <2>2, <2>3, <2>5, <2>6, AccountByThen DEF AccountGood
<1> QED
  BY <1>5, <1>6 DEF AccountStays

\* Room for one request more, when its budget is not used up.
LEMMA AccountRoom ==
    ASSUME NEW r \in Accounts!Requests, accountRequest[r].pc = "new",
           NEW W \in SUBSET AccountWaiting, NEW spent \in Nat, NEW cost \in Nat, NEW limit \in Nat, cost < limit,
           \/ spent <= cost
           \/ spent <= cost + 1 /\ \E h \in Accounts!Requests : accountRequest[h].pc \in {"save", "read", "bill", "record", "tally"},
           Cardinality({q \in Accounts!Requests : Accounts!InFlight(q)}) < AccountMaxInFlight
    PROVE  spent + Cardinality(W \cup {r}) < limit + AccountMaxInFlight
<1> DEFINE F == {q \in Accounts!Requests : Accounts!InFlight(q)}
<1>1. F \in SUBSET Accounts!Requests /\ W \in SUBSET F /\ r \notin W
  BY DEF Accounts!InFlight, AccountWaiting
<1>2. IsFiniteSet(F) /\ Cardinality(F) \in Nat /\ IsFiniteSet(W) /\ Cardinality(W) \in Nat /\ AccountMaxInFlight \in Nat
  <2>1. W \in SUBSET Accounts!Requests
    BY <1>1
  <2> QED
    BY <1>1, <2>1, AccountCounts, AccountAssumption
<1> HIDE DEF F
<1>3. Cardinality(W \cup {r}) = Cardinality(W) + 1
  BY <1>1, <1>2, FS_AddElement
<1>4. Cardinality(W) <= Cardinality(F) /\ Cardinality(F) < AccountMaxInFlight
  BY <1>1, <1>2, FS_Subset DEF F
<1>5. CASE spent <= cost
  BY <1>2, <1>3, <1>4, <1>5
<1>6. CASE spent <= cost + 1 /\ \E h \in Accounts!Requests : accountRequest[h].pc \in {"save", "read", "bill", "record", "tally"}
  <2>1. PICK h \in Accounts!Requests : accountRequest[h].pc \in {"save", "read", "bill", "record", "tally"}
    BY <1>6
  <2>2. h \in F /\ h \notin W
    BY <2>1 DEF F, AccountWaiting, Accounts!InFlight
  <2>3. W \cup {h} \in SUBSET F
    BY <1>1, <2>2
  <2>4. Cardinality(W \cup {h}) = Cardinality(W) + 1 /\ Cardinality(W \cup {h}) <= Cardinality(F)
    BY <1>2, <2>2, <2>3, FS_AddElement, FS_Subset
  <2> QED
    BY <1>2, <1>3, <1>4, <1>6, <2>4
<1> QED
  BY <1>5, <1>6

LEMMA AccountArrive ==
    ASSUME AccountTyped, NEW r \in Accounts!Requests, NEW s \in AccountSessions, NEW stream \in BOOLEAN,
           Accounts!Arrive(r, s, stream)
    PROVE  AccountStays
<1> DEFINE pc == IF Accounts!OverBudget(s) THEN "done" ELSE "queued"
           new == IF Accounts!OverBudget(s) THEN Accounts!Done
                  ELSE [Accounts!NewRequest EXCEPT !.session = s, !.stream = stream, !.pc = "queued"]
           sync == accountExplained.sync \/ ~stream
<1>1. /\ accountRequest[r].pc = "new" /\ accountRequest' = [accountRequest EXCEPT ![r] = new]
      /\ Cardinality({q \in Accounts!Requests : Accounts!InFlight(q)}) < AccountMaxInFlight
      /\ accountExplained' = [accountExplained EXCEPT !.sync = sync]
      /\ UNCHANGED << accountLimits, accountLock, accountRows, accountEnforcer, accountSpent >>
  <2>1. accountRequest[r].pc = "new" /\ accountRequest' = [accountRequest EXCEPT ![r] = new]
    BY DEF Accounts!Arrive, Accounts!At
  <2>2. Cardinality({q \in Accounts!Requests : Accounts!InFlight(q)}) < AccountMaxInFlight
    BY Zenon DEF Accounts!Arrive, Accounts!Cardinality, Cardinality
  <2>3. accountExplained' = [accountExplained EXCEPT !.sync = sync]
    BY DEF Accounts!Arrive, AccountTyped
  <2>4. UNCHANGED << accountLimits, accountLock, accountRows, accountEnforcer, accountSpent >>
    BY DEF Accounts!Arrive
  <2> QED
    BY <2>1, <2>2, <2>3, <2>4
<1>p. pc \in {"queued", "done"} /\ (pc = "queued" => ~Accounts!OverBudget(s))
  OBVIOUS
<1>2. /\ new \in Accounts!Request /\ new.pc = pc
      /\ IF pc = "done" THEN new.stream ELSE new.stream = stream /\ new.session = s
  BY <1>p DEF Accounts!NewRequest, Accounts!Done, Accounts!Request, Accounts!PCs
<1> HIDE DEF pc, new
<1>3. AccountGoes(r, new)
  BY <1>1, <1>2, AccountChange
<1>4. accountRequest'[r] = new /\ \A q \in Accounts!Requests \ {r} : accountRequest'[q] = accountRequest[q]
  BY <1>3 DEF AccountGoes
<1>5. AccountKeeps /\ accountExplained'.deleted = accountExplained.deleted /\ (~stream => accountExplained'.sync)
  <2>1. accountExplained \in [failed : BOOLEAN, deleted : BOOLEAN, sync : BOOLEAN] /\ sync \in BOOLEAN
        /\ (sync <=> accountExplained.sync \/ ~stream)
    BY DEF AccountTyped
  <2> HIDE DEF sync
  <2>2. /\ accountExplained' \in [failed : BOOLEAN, deleted : BOOLEAN, sync : BOOLEAN]
        /\ accountExplained'.deleted = accountExplained.deleted /\ accountExplained'.failed = accountExplained.failed
        /\ accountExplained'.sync = sync
    BY <1>1, <2>1
  <2> QED
    BY <2>1, <2>2 DEF AccountKeeps
<1>6. AccountTyped'
  BY <1>1, <1>2, <1>3, <1>5 DEF AccountTyped, AccountGoes, AccountKeeps
<1>7. ASSUME AccountGood, stream PROVE AccountGood'
  <2>0. accountLock # r
    BY <1>1, <1>7 DEF AccountGood, AccountAlone
  <2>1. AccountAlone'
    BY <1>1, <1>2, <1>4, <1>7, <1>p, <2>0 DEF AccountGood, AccountAlone
  <2>2. \A q \in Accounts!Requests : accountRequest'[q].pc \in {"turn", "save", "read", "bill", "record", "tally"} =>
            accountRequest'[q] = accountRequest[q]
    BY <1>2, <1>4, <1>p
  <2>3. \A q \in Accounts!Requests : accountRequest[q].pc \in {"turn", "save", "read", "bill", "record", "tally"} =>
            accountRequest'[q] = accountRequest[q]
    BY <1>1, <1>4
  <2>4. AccountBilled'
    BY <1>1, <1>7, <2>2, <2>3 DEF AccountGood, AccountBilled, AccountOwes, Accounts!RowOf
  <2>5. ~accountExplained.deleted => AccountTallied'
    BY <1>1, <1>7, <2>2, <2>3 DEF AccountGood, AccountTallied, Accounts!RowOf
  <2>6. AccountWithin'
    <3>1. CASE pc = "done"
      <4>1. \A q \in Accounts!Requests :
                /\ accountRequest'[q].pc \in {"queued", "turn"} <=> accountRequest[q].pc \in {"queued", "turn"}
                /\ accountRequest[q].pc \in {"queued", "turn"} => accountRequest'[q].session = accountRequest[q].session
        BY <1>1, <1>2, <1>4, <3>1
      <4> QED
        BY <1>1, <1>5, <1>7, <4>1, AccountWaits DEF AccountGood
    <3>2. CASE pc = "queued"
      <4>0. /\ accountLimits.session \in Nat /\ accountLimits.tenant \in Nat /\ accountEnforcer.tenant \in Nat
            /\ accountSpent.tenant \in Nat /\ accountSpent.session[s] \in Nat /\ accountRows[s].cost \in Nat
        BY AccountTypes
      <4>1. /\ accountLimits.session > 0 => accountRows[s].cost < accountLimits.session
            /\ accountLimits.tenant > 0 => accountEnforcer.tenant < accountLimits.tenant
        BY <1>p, <3>2, <4>0 DEF Accounts!OverBudget, Accounts!Reached
      <4>2. AccountWaiting' = AccountWaiting \cup {r} /\ AccountWaitingFor(s)' = AccountWaitingFor(s) \cup {r}
            /\ \A t \in AccountSessions \ {s} : AccountWaitingFor(t)' = AccountWaitingFor(t)
        BY <1>1, <1>2, <1>4, <3>2 DEF AccountWaiting, AccountWaitingFor
      <4>3. AccountWaiting \in SUBSET AccountWaiting /\ AccountWaitingFor(s) \in SUBSET AccountWaiting
        BY DEF AccountWaitingFor
      <4>4. \/ accountSpent.session[s] <= accountRows[s].cost
            \/ /\ accountSpent.session[s] <= accountRows[s].cost + 1
               /\ \E h \in Accounts!Requests : accountRequest[h].pc \in {"save", "read", "bill", "record", "tally"}
        BY <1>7 DEF AccountGood, AccountBilled, AccountOwes
      <4>5. ~accountExplained.deleted =>
            \/ accountSpent.tenant <= accountEnforcer.tenant
            \/ /\ accountSpent.tenant <= accountEnforcer.tenant + 1
               /\ \E h \in Accounts!Requests : accountRequest[h].pc \in {"save", "read", "bill", "record", "tally"}
        BY <1>7 DEF AccountGood, AccountTallied
      <4>6. accountLimits.session > 0 =>
                accountSpent.session[s] + Cardinality(AccountWaitingFor(s) \cup {r}) < accountLimits.session + AccountMaxInFlight
        BY <1>1, <4>0, <4>1, <4>3, <4>4, AccountRoom
      <4>7. accountLimits.tenant > 0 /\ ~accountExplained.deleted =>
                accountSpent.tenant + Cardinality(AccountWaiting \cup {r}) < accountLimits.tenant + AccountMaxInFlight
        BY <1>1, <4>0, <4>1, <4>3, <4>5, AccountRoom
      <4> QED
        BY <1>1, <1>5, <1>7, <4>2, <4>6, <4>7 DEF AccountGood, AccountWithin
    <3> QED
      BY <1>p, <3>1, <3>2
  <2> QED
    BY <1>5, <2>1, <2>4, <2>5, <2>6 DEF AccountGood
<1> QED
  BY <1>5, <1>6, <1>7 DEF AccountStays

LEMMA AccountDeleteSession ==
    ASSUME AccountTyped, NEW s \in AccountSessions, Accounts!DeleteSession(s)
    PROVE  AccountStays
<1>1. /\ accountRows' = [accountRows EXCEPT ![s] = Accounts!NoRow]
      /\ accountSpent' = [accountSpent EXCEPT !.session[s] = 0]
      /\ accountExplained' = [accountExplained EXCEPT !.deleted = TRUE]
      /\ UNCHANGED << accountLimits, accountRequest, accountLock, accountEnforcer >>
  BY DEF Accounts!DeleteSession
<1>2. /\ accountRows' \in [AccountSessions -> Accounts!Row] /\ accountRows'[s].cost = 0 /\ accountRows'[s].exists = FALSE
      /\ \A t \in AccountSessions \ {s} : accountRows'[t] = accountRows[t]
  <2>1. Accounts!NoRow \in Accounts!Row /\ Accounts!NoRow.cost = 0 /\ Accounts!NoRow.exists = FALSE
    BY DEF Accounts!NoRow, Accounts!Row
  <2>2. accountRows \in [AccountSessions -> Accounts!Row]
    BY DEF AccountTyped
  <2>3. accountRows'[s] = Accounts!NoRow /\ \A t \in AccountSessions \ {s} : accountRows'[t] = accountRows[t]
    BY <1>1, <2>2
  <2> QED
    BY <1>1, <2>1, <2>2, <2>3
<1>3. /\ accountSpent' \in [session : [AccountSessions -> Nat], tenant : Nat] /\ accountSpent'.session[s] = 0
      /\ \A t \in AccountSessions \ {s} : accountSpent'.session[t] = accountSpent.session[t]
  <2> DEFINE spent == [accountSpent.session EXCEPT ![s] = 0]
  <2>1. accountSpent \in [session : [AccountSessions -> Nat], tenant : Nat]
    BY DEF AccountTyped
  <2>2. /\ spent \in [AccountSessions -> Nat] /\ spent[s] = 0
        /\ \A t \in AccountSessions \ {s} : spent[t] = accountSpent.session[t]
    BY <2>1
  <2>3. accountSpent' = [accountSpent EXCEPT !.session = spent]
    BY <1>1, <2>1
  <2> HIDE DEF spent
  <2>4. accountSpent' \in [session : [AccountSessions -> Nat], tenant : Nat] /\ accountSpent'.session = spent
    BY <2>1, <2>2, <2>3
  <2> QED
    BY <2>2, <2>4
<1>4. /\ accountExplained' \in [failed : BOOLEAN, deleted : BOOLEAN, sync : BOOLEAN] /\ accountExplained'.deleted
      /\ accountExplained'.failed = accountExplained.failed /\ accountExplained'.sync = accountExplained.sync
  BY <1>1 DEF AccountTyped
<1>5. AccountTyped' /\ AccountKeeps
  BY <1>1, <1>2, <1>3, <1>4 DEF AccountTyped, AccountKeeps
<1>6. ASSUME AccountGood PROVE AccountGood'
  <2>1. AccountAlone'
    BY <1>1, <1>6 DEF AccountGood, AccountAlone
  <2>2. AccountBilled'
    <3>1. ASSUME NEW t \in AccountSessions
          PROVE  \/ accountSpent'.session[t] <= accountRows'[t].cost
                 \/ /\ accountSpent'.session[t] <= accountRows'[t].cost + 1
                    /\ \E r \in Accounts!Requests : AccountOwes(r, t)'
      BY <1>1, <1>2, <1>3, <1>6 DEF AccountGood, AccountBilled, AccountOwes
    <3>2. ASSUME NEW r \in Accounts!Requests, accountRequest'[r].pc \in {"read", "bill"}
          PROVE  /\ ~Accounts!RowOf(r).exists' => accountSpent'.session[accountRequest'[r].session] = 0
                 /\ Accounts!RowOf(r).exists' /\ accountRequest'[r].pc = "bill" => accountRequest'[r].cost = Accounts!RowOf(r).cost'
      <4>1. accountRequest'[r] = accountRequest[r] /\ accountRequest[r].session \in AccountSessions
        BY <1>1, <3>2 DEF AccountTyped
      <4>2. CASE accountRequest[r].session = s
        BY <1>2, <1>3, <4>1, <4>2 DEF Accounts!RowOf
      <4>3. CASE accountRequest[r].session # s
        BY <1>2, <1>3, <1>6, <3>2, <4>1, <4>3 DEF Accounts!RowOf, AccountGood, AccountBilled
      <4> QED
        BY <4>2, <4>3
    <3> QED
      BY <3>1, <3>2 DEF AccountBilled
  <2>3. AccountWithin'
    <3>1. \A t \in AccountSessions : AccountWaitingFor(t)' = AccountWaitingFor(t) /\ Cardinality(AccountWaitingFor(t)) \in Nat
      BY <1>1, AccountCounts DEF AccountWaiting, AccountWaitingFor
    <3>2. \A t \in AccountSessions : accountSpent'.session[t] \in Nat /\ accountSpent.session[t] \in Nat /\ accountSpent'.session[t] <= accountSpent.session[t]
      BY <1>3, AccountTypes
    <3>3. accountLimits.session \in Nat /\ AccountMaxInFlight \in Nat
      BY AccountTypes, AccountAssumption
    <3>4. accountLimits.session > 0 => \A t \in AccountSessions :
              accountSpent'.session[t] + Cardinality(AccountWaitingFor(t)) < accountLimits.session + AccountMaxInFlight
      BY <1>6, <3>1, <3>2, <3>3 DEF AccountGood, AccountWithin
    <3> QED
      BY <1>1, <1>4, <3>1, <3>4 DEF AccountWithin
  <2> QED
    BY <1>4, <2>1, <2>2, <2>3 DEF AccountGood
<1> QED
  BY <1>5, <1>6 DEF AccountStays

LEMMA AccountRestart ==
    ASSUME AccountTyped, Accounts!Restart
    PROVE  AccountStays
<1> DEFINE busy == \E r \in Accounts!Requests : Accounts!InFlight(r)
           spent == [accountSpent EXCEPT !.tenant = 0]
<1>1. /\ accountLock' = Accounts!Nobody /\ accountEnforcer' = Accounts!NewEnforcer /\ accountSpent' = spent
      /\ Accounts!Mark(busy) /\ busy \in BOOLEAN /\ UNCHANGED << accountLimits, accountRows >>
  BY DEF Accounts!Restart
<1>2. /\ spent \in [session : [AccountSessions -> Nat], tenant : Nat]
      /\ spent.session = accountSpent.session /\ spent.tenant = 0
  BY DEF AccountTyped
<1> HIDE DEF busy, spent
<1>3. /\ AccountKeeps /\ accountExplained'.deleted = accountExplained.deleted /\ (busy => accountExplained'.failed)
  BY <1>1, AccountMarks
<1>4. /\ Accounts!NewEnforcer \in [seen : [AccountSessions -> Nat], tenant : Nat] /\ Accounts!NewEnforcer.tenant = 0
      /\ \A s \in AccountSessions : Accounts!NewEnforcer.seen[s] = 0
  BY DEF Accounts!NewEnforcer
<1>5. ASSUME NEW r \in Accounts!Requests
      PROVE  /\ accountRequest'[r] \in Accounts!Request /\ accountRequest'[r].pc \in {"new", "done"}
             /\ ~Accounts!InFlight(r) => accountRequest'[r] = accountRequest[r]
  <2>1. accountRequest[r] \in Accounts!Request
    BY DEF AccountTyped
  <2>2. Accounts!Done \in Accounts!Request /\ Accounts!Done.pc = "done"
    BY DEF Accounts!Request, Accounts!PCs, Accounts!Done, Accounts!NewRequest
  <2>3. accountRequest'[r] = IF Accounts!InFlight(r) THEN Accounts!Done ELSE accountRequest[r]
    BY DEF Accounts!Restart
  <2> QED
    BY <2>1, <2>2, <2>3 DEF Accounts!InFlight
<1>6. accountRequest' \in [Accounts!Requests -> Accounts!Request]
  <2>1. accountRequest' = [r \in Accounts!Requests |-> accountRequest'[r]]
    BY DEF Accounts!Restart
  <2> QED
    BY <1>5, <2>1
<1>7. AccountTyped'
  BY <1>1, <1>2, <1>3, <1>4, <1>5, <1>6 DEF AccountTyped, AccountKeeps
<1>8. ASSUME AccountGood, ~busy PROVE AccountGood'
  <2>1. \A r \in Accounts!Requests : accountRequest'[r] = accountRequest[r] /\ accountRequest[r].pc \in {"new", "done"}
    BY <1>5, <1>8 DEF busy
  <2>2. AccountAlone'
    <3>1. \A r \in Accounts!Requests : Accounts!Nobody # r
      BY DEF Accounts!Nobody, Accounts!Requests
    <3> QED
      BY <1>1, <1>8, <2>1, <3>1 DEF AccountGood, AccountAlone
  <2>3. AccountBilled'
    BY <1>1, <1>2, <1>8, <2>1 DEF AccountGood, AccountBilled, AccountOwes
  <2>4. AccountTallied'
    BY <1>1, <1>2, <1>4, <2>1, AccountTypes DEF AccountTallied
  <2>5. AccountWithin'
    <3>1. /\ AccountWaiting' = {} /\ AccountWaiting = {}
          /\ \A s \in AccountSessions : AccountWaitingFor(s)' = AccountWaitingFor(s)
      BY <2>1 DEF AccountWaiting, AccountWaitingFor
    <3>2. Cardinality({}) = 0 /\ accountLimits.tenant \in Nat /\ AccountMaxInFlight \in Nat
      BY FS_EmptySet, AccountTypes, AccountAssumption
    <3>3. accountLimits.tenant > 0 => accountSpent'.tenant + Cardinality(AccountWaiting') < accountLimits.tenant + AccountMaxInFlight
      BY <1>1, <1>2, <3>1, <3>2
    <3> QED
      BY <1>1, <1>2, <1>8, <3>1, <3>3 DEF AccountGood, AccountWithin
  <2> QED
    BY <2>2, <2>3, <2>4, <2>5 DEF AccountGood
<1> QED
  BY <1>3, <1>7, <1>8 DEF AccountStays

LEMMA AccountNext == AccountInv /\ [Accounts!Next]_(Accounts!vars) => AccountInv'
<1> SUFFICES ASSUME AccountInv, [Accounts!Next]_(Accounts!vars) PROVE AccountInv'
  OBVIOUS
<1>t. AccountTyped
  BY DEF AccountInv
<1>s. ASSUME AccountStays PROVE AccountInv'
  BY <1>s DEF AccountInv, AccountStays, AccountKeeps, AccountGood
<1>1. ASSUME NEW r \in Accounts!Requests, NEW s \in AccountSessions, NEW stream \in BOOLEAN, Accounts!Arrive(r, s, stream)
      PROVE  AccountInv'
  BY <1>t, <1>s, <1>1, AccountArrive
<1>2. ASSUME NEW r \in Accounts!Requests, Accounts!StartTurn(r) PROVE AccountInv'
  BY <1>t, <1>s, <1>2, AccountStartTurn
<1>3. ASSUME NEW r \in Accounts!Requests, Accounts!Fail(r) \/ Accounts!RecordFails(r) PROVE AccountInv'
  BY <1>t, <1>s, <1>3, AccountFails
<1>4. ASSUME NEW r \in Accounts!Requests, NEW usage \in BOOLEAN, Accounts!EndTurn(r, usage) PROVE AccountInv'
  BY <1>t, <1>s, <1>4, AccountEndTurn
<1>5. ASSUME NEW r \in Accounts!Requests, Accounts!Save(r) PROVE AccountInv'
  BY <1>t, <1>s, <1>5, AccountSave
<1>6. ASSUME NEW r \in Accounts!Requests, Accounts!Record(r) PROVE AccountInv'
  BY <1>t, <1>s, <1>6, AccountRecord
<1>7. ASSUME NEW r \in Accounts!Requests, Accounts!Tally(r) PROVE AccountInv'
  BY <1>t, <1>s, <1>7, AccountTally
<1>8. ASSUME NEW r \in Accounts!Requests, NEW read \in BOOLEAN, Accounts!ReadCost(r, read) PROVE AccountInv'
  BY <1>t, <1>s, <1>8, AccountReadCost
<1>9. ASSUME NEW r \in Accounts!Requests, NEW written \in BOOLEAN, Accounts!Bill(r, written) PROVE AccountInv'
  BY <1>t, <1>s, <1>9, AccountBill
<1>10. ASSUME NEW s \in AccountSessions, Accounts!DeleteSession(s) PROVE AccountInv'
  BY <1>t, <1>s, <1>10, AccountDeleteSession
<1>11. ASSUME Accounts!Restart PROVE AccountInv'
  BY <1>t, <1>s, <1>11, AccountRestart
<1>12. CASE UNCHANGED Accounts!vars
  <2>1. /\ accountRequest' = accountRequest /\ accountRows' = accountRows /\ accountLimits' = accountLimits
        /\ accountLock' = accountLock /\ accountEnforcer' = accountEnforcer /\ accountSpent' = accountSpent
        /\ accountExplained' = accountExplained
    BY <1>12 DEF Accounts!vars
  <2>2. AccountTyped' /\ AccountKeeps
    BY <1>t, <2>1 DEF AccountTyped, AccountKeeps
  <2>3. ASSUME AccountGood PROVE AccountGood'
    <3>1. AccountAlone' /\ AccountBilled'
      BY <2>1, <2>3 DEF AccountGood, AccountAlone, AccountBilled, AccountOwes, Accounts!RowOf
    <3>2. ~accountExplained.deleted => AccountTallied'
      BY <2>1, <2>3 DEF AccountGood, AccountTallied, Accounts!RowOf
    <3>3. AccountWithin'
      BY <2>1, <2>3 DEF AccountGood, AccountWithin, AccountWaiting, AccountWaitingFor
    <3> QED
      BY <2>1, <3>1, <3>2, <3>3 DEF AccountGood
  <2> QED
    BY <1>s, <2>2, <2>3 DEF AccountStays
<1> QED
  BY <1>1, <1>2, <1>3, <1>4, <1>5, <1>6, <1>7, <1>8, <1>9, <1>10, <1>11, <1>12 DEF Accounts!Next

LEMMA AccountBounded == AccountInv => Accounts!OverspendingIsBounded
<1> SUFFICES ASSUME AccountInv, ~accountExplained.sync, ~accountExplained.failed
             PROVE  /\ accountLimits.session > 0 =>
                         \A s \in AccountSessions : accountSpent.session[s] < accountLimits.session + AccountMaxInFlight
                    /\ accountLimits.tenant > 0 /\ ~accountExplained.deleted =>
                         accountSpent.tenant < accountLimits.tenant + AccountMaxInFlight
  BY DEF Accounts!OverspendingIsBounded
<1>1. AccountTyped /\ AccountWithin
  BY DEF AccountInv
<1>2. Cardinality(AccountWaiting) \in Nat /\ \A s \in AccountSessions : Cardinality(AccountWaitingFor(s)) \in Nat
  BY AccountCounts DEF AccountWaiting, AccountWaitingFor
<1>3. /\ accountLimits.session \in Nat /\ accountLimits.tenant \in Nat /\ AccountMaxInFlight \in Nat
      /\ accountSpent.tenant \in Nat /\ \A s \in AccountSessions : accountSpent.session[s] \in Nat
  BY <1>1, AccountTypes, AccountAssumption
<1> QED
  BY <1>1, <1>2, <1>3 DEF AccountWithin

-----------------------------------------------------------------------------
(***************************************************************************)
(* Chunks of a text.                                                       *)
(*                                                                         *)
(* The units of a section lie one after the other, from its first word to  *)
(* its last, so that a place in the text is a number of a unit.  The words *)
(* before the units in hand that are new are in the chunks already; the    *)
(* last chunk ends where these begin, and begins no later than what is in  *)
(* hand.  The units in hand are those of the chunker or, while it looks    *)
(* for its overlap, of the tail.                                           *)
(***************************************************************************)

ChunkRecord ==
    [section : 1..Len(chunkDoc), path : Seq(0..Len(chunkDoc)), first : Nat, last : Nat,
     tokens : Nat, fresh : Nat]

ChunkPacking == chunkPc \in {"pack", "overlap", "repeat"}

ChunkSpans ==
    /\ chunkPc # "section" => chunkSection \in 1..Len(chunkDoc) /\ Chunks!Words > 0
    /\ chunkSection > 0 => chunkKind # "null"
    /\ chunkPc = "split" \/ ChunkPacking =>
         /\ \A i \in 1..Len(chunkUnits) :
               /\ 1 <= chunkUnits[i].first /\ chunkUnits[i].first <= chunkUnits[i].last
               /\ chunkUnits[i].last <= Chunks!Words
               /\ i = 1 => chunkUnits[i].first = 1
         /\ \A i, j \in 1..Len(chunkUnits) : j = i + 1 => chunkUnits[j].first = chunkUnits[i].last + 1
         /\ \A i, j \in 1..Len(chunkUnits) : i < j => chunkUnits[i].last < chunkUnits[j].first
    /\ ChunkPacking => Len(chunkUnits) > 0 /\ chunkUnits[Len(chunkUnits)].last = Chunks!Words

ChunkHand == IF chunkPc = "overlap" THEN chunkTail ELSE chunkCurrent

ChunkHandful ==
    /\ chunkPc = "split" => chunkPos = 1 /\ chunkCurrent = Chunks!None
    /\ ChunkPacking =>
         /\ ChunkHand.from <= ChunkHand.fresh /\ ChunkHand.fresh <= chunkPos /\ ChunkHand.fresh <= Len(chunkUnits)
         /\ chunkPos <= Len(chunkUnits) + 1
    /\ chunkPc = "overlap" => chunkCurrent.from < chunkPos /\ chunkCurrent.from <= chunkTail.from
    /\ chunkPc \in {"overlap", "repeat"} =>
         /\ chunkPos <= Len(chunkUnits) /\ ChunkHand.fresh = chunkPos
         /\ chunkPos > 1
         /\ ChunkHand.tokens <= Chunks!Overlap \/ ChunkHand.from = chunkPos - 1
    /\ chunkPc = "pack" =>
         /\ IF chunkPos = 1 THEN chunkCurrent = Chunks!None ELSE chunkCurrent.fresh < chunkPos
         /\ chunkCurrent.tokens <= chunkLimit.size \/ chunkPos = chunkCurrent.fresh + 1

ChunkCovered(s, w) ==
    \E c \in DOMAIN chunkList : chunkList[c].section = s /\ w \in chunkList[c].first..chunkList[c].last

ChunkLast == chunkList[Len(chunkList)]

ChunkReach ==
    /\ \A s \in 1..chunkSection : s < chunkSection \/ chunkPc = "section" =>
         \A w \in 1..chunkDoc[s].words : ChunkCovered(s, w)
    /\ ChunkPacking =>
         \A w \in 1..(chunkUnits[ChunkHand.fresh].first - 1) : ChunkCovered(chunkSection, w)
    /\ chunkList # << >> => ChunkLast.section <= chunkSection
    /\ chunkPc \in {"body", "split"} => (chunkList # << >> => ChunkLast.section < chunkSection)
    /\ ChunkPacking =>
         IF ChunkHand.fresh = 1 THEN chunkList # << >> => ChunkLast.section < chunkSection
         ELSE /\ chunkList # << >> /\ ChunkLast.section = chunkSection
              /\ ChunkLast.last + 1 = chunkUnits[ChunkHand.fresh].first
              /\ ChunkLast.first <= chunkUnits[ChunkHand.from].first
    /\ chunkPc = "overlap" => ChunkLast.first = chunkUnits[chunkCurrent.from].first

ChunkPlace ==
    chunkPath = IF chunkSection = 0 THEN << >>
                ELSE [k \in 1..chunkDoc[chunkSection].level |-> Chunks!Above(chunkSection, k)]

ChunkFollows(c, d) ==
    \/ c.section < d.section /\ d.first = 1
    \/ /\ c.section = d.section
       /\ c.first <= d.first /\ d.first <= c.last + 1 /\ c.last < d.last

ChunkOrdered ==
    \A c \in 1..Len(chunkList), d \in 1..Len(chunkList) : d = c + 1 => ChunkFollows(chunkList[c], chunkList[d])

ChunkGood(c) ==
    /\ c.tokens <= chunkLimit.size \/ c.fresh = 1
    /\ c.path = [k \in 1..chunkDoc[c.section].level |-> Chunks!Above(c.section, k)]

ChunkInv ==
    /\ Chunks!TypeOK /\ ChunkSpans /\ ChunkHandful /\ ChunkReach /\ ChunkPlace /\ ChunkOrdered
    /\ \A c \in 1..Len(chunkList) : ChunkGood(chunkList[c])

\* Places in a text.
LEMMA ChunkFirstExists ==
    ASSUME NEW T, T \subseteq Nat, T # {}
    PROVE  \E i \in T : \A j \in T : i <= j
<1> DEFINE R == {p \in Nat \X Nat : p[1] < p[2]}
<1>1. IsWellFoundedOn(R, Nat)
  BY NatLessThanWellFounded, Zenon DEF OpToRel
<1>2. \E i \in T : \A j \in T : ~ (<< j, i >> \in R)
  <2> HIDE DEF R
  <2> QED
    BY <1>1, WFMin
<1>3. \A i, j \in T : i <= j \/ << j, i >> \in R
  OBVIOUS
<1> QED
  BY <1>2, <1>3

LEMMA ChunkEndAfter ==
    ASSUME NEW P, NEW a \in Nat, NEW b \in Nat, P \subseteq 1..b, b \in P, a <= b
    PROVE  Chunks!EndAfter(P, a) \in a..b
<1> DEFINE T == {x \in P : a <= x}
<1>0. \A x \in P : x \in Nat /\ x <= b
  OBVIOUS
<1>1. T \subseteq Nat /\ T # {}
  <2>1. b \in T
    OBVIOUS
  <2> QED
    BY <1>0, <2>1
<1>2. \E i \in T : \A j \in T : i <= j
  <2> HIDE DEF T
  <2> QED
    BY <1>1, ChunkFirstExists
<1>3. \E e \in P : a <= e /\ \A x \in P : a <= x => e <= x
  BY <1>2
<1>4. Chunks!EndAfter(P, a) \in P /\ a <= Chunks!EndAfter(P, a)
  BY <1>3 DEF Chunks!EndAfter
<1> DEFINE e == Chunks!EndAfter(P, a)
<1>5. e \in P /\ a <= e
  BY <1>4
<1> HIDE DEF e
<1>6. e \in Nat /\ e <= b
  BY <1>0, <1>5
<1>7. e \in a..b
  BY <1>5, <1>6
<1> QED
  BY <1>7 DEF e

LEMMA ChunkTypes ==
    ASSUME Chunks!TypeOK
    PROVE  /\ Len(chunkUnits) \in Nat /\ DOMAIN chunkUnits = 1..Len(chunkUnits)
           /\ \A i \in 1..Len(chunkUnits) : chunkUnits[i].first \in Nat /\ chunkUnits[i].last \in Nat
           /\ Len(chunkList) \in Nat /\ DOMAIN chunkList = 1..Len(chunkList)
           /\ \A c \in 1..Len(chunkList) :
                 /\ chunkList[c].section \in 1..Len(chunkDoc) /\ chunkList[c].first \in Nat
                 /\ chunkList[c].last \in Nat /\ chunkList[c].tokens \in Nat /\ chunkList[c].fresh \in Nat
           /\ chunkCurrent.from \in Nat \ {0} /\ chunkCurrent.tokens \in Nat /\ chunkCurrent.fresh \in Nat \ {0}
           /\ chunkTail.from \in Nat \ {0} /\ chunkTail.tokens \in Nat /\ chunkTail.fresh \in Nat \ {0}
           /\ chunkPos \in Nat \ {0}
           /\ Len(chunkDoc) \in Nat /\ DOMAIN chunkDoc = 1..Len(chunkDoc)
           /\ \A s \in 1..Len(chunkDoc) : chunkDoc[s].level \in Nat /\ chunkDoc[s].words \in Nat
           /\ chunkSection \in Nat /\ chunkSection <= Len(chunkDoc)
           /\ chunkLimit.size \in Nat \ {0} /\ chunkLimit.overlap \in Nat /\ Chunks!Overlap \in Nat
<1>1. /\ Len(chunkUnits) \in Nat /\ DOMAIN chunkUnits = 1..Len(chunkUnits)
      /\ \A i \in 1..Len(chunkUnits) : chunkUnits[i].first \in Nat /\ chunkUnits[i].last \in Nat
  <2> DEFINE R == [first : Nat, last : Nat]
  <2>1. chunkUnits \in Seq(R)
    BY DEF Chunks!TypeOK
  <2>2. \A r \in R : r.first \in Nat /\ r.last \in Nat
    OBVIOUS
  <2> HIDE DEF R
  <2>3. Len(chunkUnits) \in Nat /\ DOMAIN chunkUnits = 1..Len(chunkUnits)
    BY <2>1, LenProperties
  <2>4. \A i \in 1..Len(chunkUnits) : chunkUnits[i] \in R
    BY <2>1, ElementOfSeq
  <2> QED
    BY <2>2, <2>3, <2>4
<1>2. /\ Len(chunkList) \in Nat /\ DOMAIN chunkList = 1..Len(chunkList)
      /\ \A c \in 1..Len(chunkList) :
            /\ chunkList[c].section \in 1..Len(chunkDoc) /\ chunkList[c].first \in Nat
            /\ chunkList[c].last \in Nat /\ chunkList[c].tokens \in Nat /\ chunkList[c].fresh \in Nat
  <2>1. chunkList \in Seq(ChunkRecord)
    BY DEF Chunks!TypeOK, ChunkRecord
  <2>2. \A r \in ChunkRecord : /\ r.section \in 1..Len(chunkDoc) /\ r.first \in Nat
                               /\ r.last \in Nat /\ r.tokens \in Nat /\ r.fresh \in Nat
    BY DEF ChunkRecord
  <2>3. Len(chunkList) \in Nat /\ DOMAIN chunkList = 1..Len(chunkList)
    BY <2>1, LenProperties
  <2>4. \A c \in 1..Len(chunkList) : chunkList[c] \in ChunkRecord
    BY <2>1, ElementOfSeq
  <2> QED
    BY <2>2, <2>3, <2>4
<1>3. /\ chunkCurrent.from \in Nat \ {0} /\ chunkCurrent.tokens \in Nat /\ chunkCurrent.fresh \in Nat \ {0}
      /\ chunkTail.from \in Nat \ {0} /\ chunkTail.tokens \in Nat /\ chunkTail.fresh \in Nat \ {0}
      /\ chunkPos \in Nat \ {0}
  BY DEF Chunks!TypeOK, Chunks!Run
<1>4. /\ Len(chunkDoc) \in Nat /\ DOMAIN chunkDoc = 1..Len(chunkDoc)
      /\ \A s \in 1..Len(chunkDoc) : chunkDoc[s].level \in Nat /\ chunkDoc[s].words \in Nat
  BY ChunkAssumption DEF Chunks!TypeOK, Chunks!Parameters
<1>5. chunkSection \in Nat /\ chunkSection <= Len(chunkDoc)
  BY <1>4 DEF Chunks!TypeOK
<1>6. chunkLimit.size \in Nat \ {0} /\ chunkLimit.overlap \in Nat /\ Chunks!Overlap \in Nat
  <2>1. chunkLimit.size \in Nat \ {0} /\ chunkLimit.overlap \in Nat
    BY ChunkAssumption DEF Chunks!TypeOK, Chunks!Parameters
  <2> QED
    BY <2>1 DEF Chunks!Overlap
<1> QED
  BY <1>1, <1>2, <1>3, <1>4, <1>5, <1>6

\* A unit ends within its section.
LEMMA ChunkUnitEnd ==
    ASSUME Chunks!TypeOK, chunkSection \in 1..Len(chunkDoc), NEW a \in 1..Chunks!Words
    PROVE  Chunks!UnitEnd(a) \in a..Chunks!Words
<1> DEFINE W == Chunks!Words
           P == chunkDoc[chunkSection].paragraphs
           S == chunkDoc[chunkSection].sentences
<1>1. W \in Nat /\ W > 0 /\ a \in Nat /\ a <= W
  BY ChunkTypes DEF Chunks!Words
<1>2. S \subseteq 1..W /\ P \subseteq S /\ W \in P
  <2>1. chunkDoc \in ChunkDocuments /\ chunkSection \in DOMAIN chunkDoc
    BY ChunkTypes DEF Chunks!TypeOK
  <2> QED
    BY <1>1, <2>1, ChunkAssumption DEF Chunks!Parameters, Chunks!Words
<1> HIDE DEF W, P, S
<1>3. Chunks!EndAfter(P, a) \in a..W
  <2>1. P \subseteq 1..W
    BY <1>2
  <2> QED
    BY <1>1, <1>2, <2>1, ChunkEndAfter
<1>4. Chunks!EndAfter(S, a) \in a..W
  <2>1. W \in S
    BY <1>2
  <2> QED
    BY <1>1, <1>2, <2>1, ChunkEndAfter
<1>5. ASSUME NEW b \in a..W PROVE Chunks!HardEnd(a, b) \in a..b
  <2> DEFINE Q == {k \in a..b : k = b \/ Chunks!Together(a)[k + 1] > chunkLimit.size}
  <2>1. Q \subseteq 1..b /\ b \in Q /\ b \in Nat /\ a <= b
    BY <1>1, <1>5
  <2>2. Chunks!HardEnd(a, b) = Chunks!EndAfter(Q, a)
    BY DEF Chunks!HardEnd
  <2> HIDE DEF Q
  <2> QED
    BY <1>1, <2>1, <2>2, ChunkEndAfter
<1>6. Chunks!HardEnd(a, Chunks!EndAfter(S, a)) \in a..W
  <2>1. Chunks!HardEnd(a, Chunks!EndAfter(S, a)) \in a..Chunks!EndAfter(S, a)
    BY <1>4, <1>5
  <2> QED
    BY <1>1, <1>4, <2>1
<1>7. Chunks!UnitEnd(a) \in {W, Chunks!EndAfter(P, a), Chunks!EndAfter(S, a), Chunks!HardEnd(a, Chunks!EndAfter(S, a))}
  BY DEF Chunks!UnitEnd, W, P, S
<1>8. W \in a..W
  BY <1>1
<1>9. Chunks!UnitEnd(a) \in a..W
  BY <1>3, <1>4, <1>6, <1>7, <1>8
<1> QED
  BY <1>9 DEF W

LEMMA ChunkTokens ==
    ASSUME Chunks!TypeOK, ChunkSpans, chunkPc = "split" \/ ChunkPacking, NEW i \in 1..Len(chunkUnits)
    PROVE  Chunks!Tokens(i) \in Nat
<1>1. chunkPc # "section"
  BY DEF ChunkPacking
<1>2. chunkDoc \in ChunkDocuments /\ chunkSection \in DOMAIN chunkDoc
  BY <1>1, ChunkTypes DEF Chunks!TypeOK, ChunkSpans
<1> DEFINE W == chunkDoc[chunkSection].words
<1>3. W \in Nat /\ chunkUnits[i].first \in 1..W /\ chunkUnits[i].last \in 1..W
  <2>1. W \in Nat /\ chunkUnits[i].first \in Nat /\ chunkUnits[i].last \in Nat
    BY <1>2, ChunkTypes
  <2>2. 1 <= chunkUnits[i].first /\ chunkUnits[i].first <= chunkUnits[i].last /\ chunkUnits[i].last <= W
    BY DEF ChunkSpans, Chunks!Words
  <2> QED
    BY <2>1, <2>2
<1>4. chunkDoc[chunkSection].count \in [(1..W) \X (1..W) -> Nat]
  BY <1>2, ChunkAssumption DEF Chunks!Parameters
<1> HIDE DEF W
<1>5. << chunkUnits[i].first, chunkUnits[i].last >> \in (1..W) \X (1..W)
  BY <1>3
<1>6. chunkDoc[chunkSection].count[<< chunkUnits[i].first, chunkUnits[i].last >>] \in Nat
  BY <1>4, <1>5
<1> QED
  BY <1>6 DEF Chunks!Tokens, Chunks!Count

LEMMA ChunkAboveStays ==
    ASSUME chunkDoc' = chunkDoc
    PROVE  \A s, k : Chunks!Above(s, k)' = Chunks!Above(s, k)
BY DEF Chunks!Above

\* A chunk is added.
LEMMA ChunkAdded ==
    ASSUME ChunkInv, chunkDoc' = chunkDoc, chunkLimit' = chunkLimit,
           NEW e \in ChunkRecord, ChunkGood(e), chunkList # << >> => ChunkFollows(ChunkLast, e),
           chunkList' = Append(chunkList, e)
    PROVE  /\ chunkList' \in Seq(ChunkRecord')
           /\ ChunkOrdered'
           /\ (\A c \in 1..Len(chunkList) : ChunkGood(chunkList[c]))'
           /\ \A s, w : ChunkCovered(s, w) => ChunkCovered(s, w)'
           /\ \A w \in e.first..e.last : ChunkCovered(e.section, w)'
           /\ chunkList' # << >> /\ ChunkLast' = e
<1>1. chunkList \in Seq(ChunkRecord)
  BY DEF ChunkInv, Chunks!TypeOK, ChunkRecord
<1> DEFINE n == Len(chunkList)
<1>2. /\ chunkList' \in Seq(ChunkRecord) /\ chunkList' # << >> /\ n \in Nat
      /\ Len(chunkList') = n + 1 /\ chunkList'[n + 1] = e
      /\ \A i \in 1..n : chunkList'[i] = chunkList[i]
  BY <1>1, Appended
<1>3. DOMAIN chunkList = 1..n /\ DOMAIN chunkList' = 1..(n + 1)
  BY <1>1, <1>2, LenProperties
<1>4. n = 0 <=> chunkList = << >>
  BY <1>1, EmptySeq
<1> HIDE DEF n
<1>5. ChunkRecord' = ChunkRecord
  BY DEF ChunkRecord
<1>6. ASSUME NEW c \in 1..(n + 1), NEW d \in 1..(n + 1), d = c + 1
      PROVE  ChunkFollows(chunkList'[c], chunkList'[d])
  <2>1. c \in 1..n
    BY <1>2, <1>6
  <2>2. CASE d \in 1..n
    <3>1. ChunkFollows(chunkList[c], chunkList[d])
      BY <1>6, <2>1, <2>2 DEF ChunkInv, ChunkOrdered, n
    <3> QED
      BY <1>2, <2>1, <2>2, <3>1
  <2>3. CASE d = n + 1
    <3>1. c = n /\ chunkList # << >>
      BY <1>2, <1>4, <1>6, <2>1, <2>3
    <3>2. ChunkFollows(chunkList[n], e)
      BY <3>1 DEF n, ChunkLast
    <3> QED
      BY <1>2, <2>1, <2>3, <3>1, <3>2
  <2> QED
    BY <1>2, <2>2, <2>3
<1>7. ChunkOrdered'
  <2>1. \A c, d \in 1..Len(chunkList') : d = c + 1 => ChunkFollows(chunkList'[c], chunkList'[d])
    BY <1>2, <1>6
  <2> QED
    BY <2>1 DEF ChunkOrdered, ChunkFollows
<1>8. (\A c \in 1..Len(chunkList) : ChunkGood(chunkList[c]))'
  <2>1. ASSUME NEW c \in 1..(n + 1) PROVE ChunkGood(chunkList'[c])
    <3>1. CASE c \in 1..n
      <4>1. ChunkGood(chunkList[c])
        BY <3>1 DEF ChunkInv, n
      <4> QED
        BY <1>2, <3>1, <4>1
    <3>2. CASE c = n + 1
      BY <1>2, <3>2
    <3> QED
      BY <1>2, <3>1, <3>2
  <2>2. \A c \in 1..Len(chunkList') : ChunkGood(chunkList'[c])
    BY <1>2, <2>1
  <2>3. \A c : ChunkGood(c) => ChunkGood(c)'
    BY ChunkAboveStays DEF ChunkGood
  <2>4. \A c \in 1..Len(chunkList') : ChunkGood(chunkList[c])'
    BY <2>2, ChunkAboveStays DEF ChunkGood
  <2> QED
    BY <2>4
<1>9. ASSUME NEW s, NEW w, ChunkCovered(s, w) PROVE ChunkCovered(s, w)'
  <2>1. PICK c \in 1..n : chunkList[c].section = s /\ w \in chunkList[c].first..chunkList[c].last
    BY <1>3, <1>9 DEF ChunkCovered
  <2>2. c \in 1..(n + 1) /\ chunkList'[c] = chunkList[c]
    BY <1>2, <2>1
  <2> QED
    BY <1>3, <2>1, <2>2 DEF ChunkCovered
<1>10. ASSUME NEW w \in e.first..e.last PROVE ChunkCovered(e.section, w)'
  <2>1. n + 1 \in 1..(n + 1)
    BY <1>2
  <2> QED
    BY <1>2, <1>3, <2>1 DEF ChunkCovered
<1>11. ChunkLast' = e
  BY <1>2 DEF ChunkLast
<1> QED
  BY <1>2, <1>5, <1>7, <1>8, <1>9, <1>10, <1>11

LEMMA ChunkLastType ==
    ASSUME Chunks!TypeOK, chunkList # << >>
    PROVE  ChunkLast \in ChunkRecord
<1>1. chunkList \in Seq(ChunkRecord)
  BY DEF Chunks!TypeOK, ChunkRecord
<1>2. Len(chunkList) \in 1..Len(chunkList)
  BY <1>1, EmptySeq, LenProperties
<1> QED
  BY <1>1, <1>2, ElementOfSeq DEF ChunkLast

\* The chunks are as they were.
LEMMA ChunkKept ==
    ASSUME ChunkInv, chunkDoc' = chunkDoc, chunkLimit' = chunkLimit, chunkList' = chunkList
    PROVE  /\ chunkList' \in Seq(ChunkRecord')
           /\ ChunkOrdered'
           /\ (\A c \in 1..Len(chunkList) : ChunkGood(chunkList[c]))'
           /\ \A s, w : ChunkCovered(s, w)' <=> ChunkCovered(s, w)
           /\ ChunkLast' = ChunkLast
<1>1. chunkList \in Seq(ChunkRecord)
  BY DEF ChunkInv, Chunks!TypeOK, ChunkRecord
<1>2. ChunkRecord' = ChunkRecord
  BY DEF ChunkRecord
<1>3. ChunkOrdered'
  BY DEF ChunkInv, ChunkOrdered, ChunkFollows
<1>4. (\A c \in 1..Len(chunkList) : ChunkGood(chunkList[c]))'
  BY ChunkAboveStays DEF ChunkInv, ChunkGood
<1>5. ChunkLast' = ChunkLast
  BY DEF ChunkLast
<1>6. \A s, w : ChunkCovered(s, w)' <=> ChunkCovered(s, w)
  BY DEF ChunkCovered
<1> QED
  BY <1>1, <1>2, <1>3, <1>4, <1>5, <1>6

LEMMA ChunkMonotone ==
    ASSUME ChunkInv, ChunkPacking
    PROVE  \A i, j \in 1..Len(chunkUnits) : i <= j =>
              chunkUnits[i].first <= chunkUnits[j].first /\ chunkUnits[i].last <= chunkUnits[j].last
<1>1. /\ Len(chunkUnits) \in Nat
      /\ \A i \in 1..Len(chunkUnits) : chunkUnits[i].first \in Nat /\ chunkUnits[i].last \in Nat
  BY ChunkTypes DEF ChunkInv
<1>2. \A i, j \in 1..Len(chunkUnits) : i < j => chunkUnits[i].last < chunkUnits[j].first
  BY DEF ChunkInv, ChunkSpans
<1>3. \A i \in 1..Len(chunkUnits) : chunkUnits[i].first <= chunkUnits[i].last
  BY DEF ChunkInv, ChunkSpans
<1> QED
  BY <1>1, <1>2, <1>3

\* The units in hand are a chunk that follows the last one.
LEMMA ChunkOfHand ==
    ASSUME ChunkInv, chunkPc = "pack", chunkCurrent.from # chunkPos
    PROVE  /\ Chunks!InHand \in ChunkRecord /\ ChunkGood(Chunks!InHand)
           /\ chunkList # << >> => ChunkFollows(ChunkLast, Chunks!InHand)
           /\ Chunks!InHand.section = chunkSection
           /\ Chunks!InHand.first = chunkUnits[chunkCurrent.from].first
           /\ Chunks!InHand.last = chunkUnits[chunkPos - 1].last
           /\ chunkPos - 1 \in 1..Len(chunkUnits)
           /\ \A w \in 1..chunkUnits[chunkPos - 1].last :
                 ChunkCovered(chunkSection, w) \/ w \in Chunks!InHand.first..Chunks!InHand.last
<1> DEFINE e == Chunks!InHand
           from == chunkCurrent.from
           fresh == chunkCurrent.fresh
<1>0. Chunks!TypeOK /\ ChunkPacking /\ ChunkHand = chunkCurrent
  BY DEF ChunkInv, ChunkPacking, ChunkHand
<1>1. /\ Len(chunkUnits) \in Nat /\ chunkPos \in Nat \ {0} /\ from \in Nat \ {0} /\ fresh \in Nat \ {0}
      /\ chunkCurrent.tokens \in Nat /\ chunkLimit.size \in Nat /\ chunkSection \in Nat
      /\ \A i \in 1..Len(chunkUnits) : chunkUnits[i].first \in Nat /\ chunkUnits[i].last \in Nat
  BY <1>0, ChunkTypes
<1>2. chunkPos # 1 /\ fresh < chunkPos
  BY <1>0, <1>1 DEF ChunkInv, ChunkHandful, Chunks!None
<1>3. from <= fresh /\ fresh <= Len(chunkUnits) /\ chunkPos <= Len(chunkUnits) + 1
  BY <1>0 DEF ChunkInv, ChunkHandful
<1>4. /\ e.section = chunkSection /\ e.path = chunkPath /\ e.first = chunkUnits[from].first
      /\ e.last = chunkUnits[chunkPos - 1].last /\ e.tokens = chunkCurrent.tokens /\ e.fresh = chunkPos - fresh
      /\ e = [section |-> chunkSection, path |-> chunkPath, first |-> e.first, last |-> e.last,
              tokens |-> e.tokens, fresh |-> e.fresh]
  BY DEF Chunks!InHand, Chunks!Chunk
<1> HIDE DEF e
<1>5. from \in 1..Len(chunkUnits) /\ fresh \in 1..Len(chunkUnits) /\ chunkPos - 1 \in 1..Len(chunkUnits)
  BY <1>1, <1>2, <1>3
<1> HIDE DEF from, fresh
<1>14. /\ chunkUnits[from].first \in Nat /\ chunkUnits[fresh].first \in Nat /\ chunkUnits[fresh].last \in Nat
       /\ chunkUnits[chunkPos - 1].last \in Nat /\ e.first \in Nat /\ e.last \in Nat
  BY <1>1, <1>4, <1>5
<1>6. chunkSection \in 1..Len(chunkDoc) /\ chunkPath \in Seq(0..Len(chunkDoc))
  BY <1>0 DEF ChunkInv, ChunkSpans, Chunks!TypeOK
<1>7. e \in ChunkRecord
  <2>1. e.first \in Nat /\ e.last \in Nat /\ e.tokens \in Nat /\ e.fresh \in Nat
    BY <1>1, <1>2, <1>4, <1>14
  <2> QED
    BY <1>4, <1>6, <2>1 DEF ChunkRecord
<1>8. ChunkGood(e)
  <2>1. e.tokens <= chunkLimit.size \/ e.fresh = 1
    BY <1>1, <1>4 DEF ChunkInv, ChunkHandful, fresh
  <2>2. chunkSection \in Nat /\ chunkSection # 0
    BY <1>1, <1>6
  <2>3. e.path = [k \in 1..chunkDoc[e.section].level |-> Chunks!Above(e.section, k)]
    BY <1>4, <2>2 DEF ChunkInv, ChunkPlace
  <2> QED
    BY <2>1, <2>3 DEF ChunkGood
<1>9. \A i, j \in 1..Len(chunkUnits) : i <= j => chunkUnits[i].first <= chunkUnits[j].first /\ chunkUnits[i].last <= chunkUnits[j].last
  BY <1>0, ChunkMonotone
<1>10. fresh <= chunkPos - 1 /\ chunkUnits[fresh].last <= e.last /\ chunkUnits[fresh].first <= chunkUnits[fresh].last
  <2>1. chunkUnits[fresh].first <= chunkUnits[fresh].last
    BY <1>0, <1>5 DEF ChunkInv, ChunkSpans
  <2>2. fresh <= chunkPos - 1
    BY <1>1, <1>2
  <2> QED
    BY <1>4, <1>5, <1>9, <2>1, <2>2
<1>11. e.first <= chunkUnits[fresh].first
  BY <1>3, <1>4, <1>5, <1>9
<1>12. ASSUME chunkList # << >> PROVE ChunkFollows(ChunkLast, e)
  <2>1. CASE fresh = 1
    <3>1. ChunkLast.section < e.section
      BY <1>0, <1>4, <1>12, <2>1 DEF ChunkInv, ChunkReach, fresh
    <3>2. from = 1 /\ chunkUnits[1].first = 1
      BY <1>0, <1>1, <1>3, <1>5, <2>1 DEF ChunkInv, ChunkSpans
    <3> QED
      BY <1>4, <3>1, <3>2 DEF ChunkFollows
  <2>2. CASE fresh # 1
    <3>1. /\ ChunkLast.section = e.section
          /\ ChunkLast.last + 1 = chunkUnits[fresh].first
          /\ ChunkLast.first <= e.first
      BY <1>0, <1>4, <2>2 DEF ChunkInv, ChunkReach, fresh, from
    <3>2. ChunkLast.last \in Nat
      <4>1. ChunkLast \in ChunkRecord
        BY <1>0, <1>12, ChunkLastType
      <4> QED
        BY <4>1 DEF ChunkRecord
    <3>3. ChunkLast.last < e.last
      <4>1. e.last \in Nat /\ chunkUnits[fresh].first \in Nat /\ chunkUnits[fresh].last \in Nat
        BY <1>14
      <4> QED
        BY <1>10, <3>1, <3>2, <4>1
    <3>4. e.first <= ChunkLast.last + 1
      BY <1>11, <3>1
    <3> QED
      BY <3>1, <3>3, <3>4 DEF ChunkFollows
  <2> QED
    BY <2>1, <2>2
<1>13. ASSUME NEW w \in 1..e.last PROVE ChunkCovered(chunkSection, w) \/ w \in e.first..e.last
  <2>1. \A x \in 1..(chunkUnits[fresh].first - 1) : ChunkCovered(chunkSection, x)
    BY <1>0 DEF ChunkInv, ChunkReach, fresh
  <2>2. w \in 1..(chunkUnits[fresh].first - 1) \/ w \in e.first..e.last
    BY <1>11, <1>13, <1>14
  <2> QED
    BY <2>1, <2>2
<1> QED
  BY <1>4, <1>5, <1>7, <1>8, <1>12, <1>13 DEF e, from

LEMMA ChunkInit == Chunks!Init => ChunkInv
<1> SUFFICES ASSUME Chunks!Init PROVE ChunkInv
  OBVIOUS
<1>1. chunkDoc \in ChunkDocuments /\ Len(chunkDoc) \in Nat
  BY ChunkAssumption DEF Chunks!Init, Chunks!Parameters
<1>2. /\ chunkSection = 0 /\ chunkPath = << >> /\ chunkPc = "section" /\ chunkUnits = << >> /\ chunkPos = 1
      /\ chunkCurrent = Chunks!None /\ chunkTail = Chunks!None /\ chunkList = << >>
  BY DEF Chunks!Init
<1>3. Chunks!None \in Chunks!Run
  BY DEF Chunks!None, Chunks!Run
<1>4. \A S : << >> \in Seq(S)
  OBVIOUS
<1>5. Chunks!TypeOK
  <2>1. chunkLimit \in ChunkLimits /\ chunkKind \in {"null", "plain", "headings"}
    BY DEF Chunks!Init
  <2> QED
    BY <1>1, <1>2, <1>3, <1>4, <2>1 DEF Chunks!TypeOK
<1>6. Len(chunkList) = 0 /\ 1..0 = {}
  BY <1>2
<1>7. ChunkSpans /\ ChunkHandful
  BY <1>2 DEF ChunkSpans, ChunkHandful, ChunkPacking
<1>8. ChunkReach /\ ChunkPlace
  BY <1>2, <1>6 DEF ChunkReach, ChunkPlace, ChunkPacking
<1>9. ChunkOrdered /\ \A c \in 1..Len(chunkList) : ChunkGood(chunkList[c])
  BY <1>6 DEF ChunkOrdered
<1> QED
  BY <1>5, <1>7, <1>8, <1>9 DEF ChunkInv

\* The headings above the next section are those its predecessors leave.
LEMMA ChunkPathUnder ==
    ASSUME Chunks!TypeOK, ChunkPlace, chunkSection < Len(chunkDoc)
    PROVE  LET level == chunkDoc[chunkSection + 1].level IN
           /\ Chunks!PathUnder(level) = [k \in 1..level |-> Chunks!Above(chunkSection + 1, k)]
           /\ Chunks!PathUnder(level) \in Seq(0..Len(chunkDoc))
<1> DEFINE s == chunkSection
           L == chunkDoc[s + 1].level
           Last(h, k) == {x \in 1..h : chunkDoc[x].level <= k /\ \A y \in (x + 1)..h : chunkDoc[y].level > k}
<1>1. /\ Len(chunkDoc) \in Nat /\ s \in Nat /\ s + 1 \in 1..Len(chunkDoc) /\ L \in Nat
      /\ \A x \in 1..(s + 1) : chunkDoc[x].level \in Nat
  <2>1. s \in Nat /\ Len(chunkDoc) \in Nat /\ \A x \in 1..Len(chunkDoc) : chunkDoc[x].level \in Nat
    BY ChunkTypes
  <2>2. s + 1 \in 1..Len(chunkDoc)
    BY <2>1
  <2> QED
    BY <2>1, <2>2
<1>2. \A h, k : Chunks!Above(h, k) = IF \E x \in Last(h, k) : chunkDoc[x].level = k
                                       THEN CHOOSE x \in Last(h, k) : chunkDoc[x].level = k ELSE 0
  BY DEF Chunks!Above
<1> HIDE DEF L
<1>3. Len(chunkPath) = IF s = 0 THEN 0 ELSE chunkDoc[s].level
  <2>1. CASE s = 0
    BY <2>1 DEF ChunkPlace
  <2>2. CASE s # 0
    <3>1. chunkPath \in Seq(0..Len(chunkDoc))
      BY DEF Chunks!TypeOK
    <3>2. DOMAIN chunkPath = 1..Len(chunkPath) /\ Len(chunkPath) \in Nat
      BY <3>1, LenProperties
    <3>3. DOMAIN chunkPath = 1..chunkDoc[s].level
      BY <2>2 DEF ChunkPlace
    <3>4. chunkDoc[s].level \in Nat
      BY <1>1, <2>2
    <3> QED
      BY <2>2, <3>2, <3>3, <3>4
  <2> QED
    BY <2>1, <2>2
<1>4. Last(s + 1, L) = {s + 1}
  <2>1. s + 1 \in Last(s + 1, L)
    BY <1>1 DEF L
  <2>2. ASSUME NEW x \in Last(s + 1, L) PROVE x = s + 1
    <3>1. x \in 1..(s + 1) /\ \A y \in (x + 1)..(s + 1) : chunkDoc[y].level > L
      OBVIOUS
    <3>2. ~ (chunkDoc[s + 1].level > L)
      BY <1>1 DEF L
    <3>3. s + 1 \notin (x + 1)..(s + 1)
      BY <3>1, <3>2
    <3> QED
      BY <1>1, <3>1, <3>3
  <2> HIDE DEF Last
  <2> QED
    BY <2>1, <2>2
<1>5. Chunks!Above(s + 1, L) = s + 1
  <2>1. \E x \in Last(s + 1, L) : chunkDoc[x].level = L
    BY <1>4 DEF L
  <2>2. Chunks!Above(s + 1, L) = CHOOSE x \in Last(s + 1, L) : chunkDoc[x].level = L
    BY <1>2, <2>1
  <2>3. (CHOOSE x \in Last(s + 1, L) : chunkDoc[x].level = L) \in Last(s + 1, L)
    BY <2>1
  <2> HIDE DEF Last
  <2> QED
    BY <1>4, <2>2, <2>3
<1>6. ASSUME NEW k \in 1..L, k # L
      PROVE  Chunks!Above(s + 1, k) = IF k <= Len(chunkPath) THEN chunkPath[k] ELSE 0
  <2>0. k \in Nat /\ k < L /\ 1 <= k
    BY <1>1, <1>6
  <2>1. Last(s + 1, k) = Last(s, k)
    <3>1. ASSUME NEW x \in Last(s + 1, k) PROVE x \in Last(s, k)
      <4>1. x \in 1..(s + 1) /\ chunkDoc[x].level <= k /\ \A y \in (x + 1)..(s + 1) : chunkDoc[y].level > k
        OBVIOUS
      <4>2. x # s + 1
        BY <1>1, <2>0, <4>1 DEF L
      <4> QED
        BY <1>1, <4>1, <4>2
    <3>2. ASSUME NEW x \in Last(s, k) PROVE x \in Last(s + 1, k)
      <4>1. x \in 1..s /\ chunkDoc[x].level <= k /\ \A y \in (x + 1)..s : chunkDoc[y].level > k
        OBVIOUS
      <4>2. chunkDoc[s + 1].level > k
        BY <1>1, <2>0 DEF L
      <4>3. \A y \in (x + 1)..(s + 1) : y \in (x + 1)..s \/ y = s + 1
        BY <1>1, <4>1
      <4> QED
        BY <1>1, <4>1, <4>2, <4>3
    <3> HIDE DEF Last
    <3> QED
      BY <3>1, <3>2
  <2>2. Chunks!Above(s + 1, k) = Chunks!Above(s, k)
    <3> HIDE DEF Last
    <3> QED
      BY <1>2, <2>1
  <2>3. CASE s = 0
    <3>1. Last(s, k) = {}
      BY <2>3
    <3>2. Chunks!Above(s, k) = 0
      BY <1>2, <3>1
    <3> QED
      BY <1>3, <2>0, <2>2, <2>3, <3>2
  <2>4. CASE s # 0 /\ k <= chunkDoc[s].level
    <3>1. k \in 1..chunkDoc[s].level
      BY <1>1, <2>0, <2>4
    <3>2. chunkPath[k] = Chunks!Above(s, k)
      BY <2>4, <3>1 DEF ChunkPlace
    <3> QED
      BY <1>3, <2>2, <2>4, <3>2
  <2>5. CASE s # 0 /\ ~ (k <= chunkDoc[s].level)
    <3>1. chunkDoc[s].level \in Nat /\ s \in 1..s
      BY <1>1, <2>5
    <3>2. \A x \in Last(s, k) : x = s
      <4>1. \A x \in 1..s : x # s => s \in (x + 1)..s
        BY <1>1
      <4>2. ~ (chunkDoc[s].level > k)
        BY <2>0, <2>5, <3>1
      <4> QED
        BY <4>1, <4>2
    <3>3. ~ \E x \in Last(s, k) : chunkDoc[x].level = k
      <4> HIDE DEF Last
      <4>1. chunkDoc[s].level # k
        BY <2>0, <2>5, <3>1
      <4> QED
        BY <3>2, <4>1
    <3>4. Chunks!Above(s, k) = 0
      <4> HIDE DEF Last
      <4> QED
        BY <1>2, <3>3
    <3> QED
      BY <1>3, <2>2, <2>5, <3>4
  <2> QED
    BY <2>3, <2>4, <2>5
<1> HIDE DEF Last
<1>7. Chunks!PathUnder(L) = [k \in 1..L |-> Chunks!Above(s + 1, k)]
  BY <1>5, <1>6 DEF Chunks!PathUnder
<1>8. Chunks!PathUnder(L) \in Seq(0..Len(chunkDoc))
  <2>1. chunkPath \in Seq(0..Len(chunkDoc))
    BY DEF Chunks!TypeOK
  <2>2. Len(chunkPath) \in Nat /\ \A k \in 1..Len(chunkPath) : chunkPath[k] \in 0..Len(chunkDoc)
    BY <2>1, ElementOfSeq, LenProperties
  <2>3. s + 1 \in 0..Len(chunkDoc) /\ 0 \in 0..Len(chunkDoc)
    BY <1>1
  <2>4. \A k \in 1..L : (IF k = L THEN s + 1 ELSE IF k <= Len(chunkPath) THEN chunkPath[k] ELSE 0) \in 0..Len(chunkDoc)
    BY <1>1, <2>2, <2>3
  <2>5. Chunks!PathUnder(L) \in [1..L -> 0..Len(chunkDoc)]
    BY <2>4 DEF Chunks!PathUnder
  <2> QED
    BY <1>1, <2>5, SeqDef
<1> QED
  BY <1>7, <1>8 DEF L

LEMMA ChunkNextSection == ChunkInv /\ Chunks!NextSection => ChunkInv'
<1> SUFFICES ASSUME ChunkInv, Chunks!NextSection PROVE ChunkInv'
  OBVIOUS
<1> DEFINE s == chunkSection
           L == chunkDoc[s + 1].level
<1>1. /\ chunkPc = "section" /\ chunkKind # "null" /\ s < Len(chunkDoc) /\ chunkSection' = s + 1
      /\ chunkPath' = Chunks!PathUnder(L)
      /\ chunkPc' = IF chunkDoc[s + 1].words = 0 THEN "section" ELSE "body"
      /\ chunkDoc' = chunkDoc /\ chunkLimit' = chunkLimit /\ chunkKind' = chunkKind /\ chunkUnits' = chunkUnits
      /\ chunkPos' = chunkPos /\ chunkCurrent' = chunkCurrent /\ chunkTail' = chunkTail /\ chunkList' = chunkList
  BY DEF Chunks!NextSection
<1>2. /\ s \in Nat /\ Len(chunkDoc) \in Nat /\ s + 1 \in 1..Len(chunkDoc) /\ s + 1 # 0
      /\ \A x \in 1..Len(chunkDoc) : chunkDoc[x].words \in Nat
  <2>1. Chunks!TypeOK
    BY DEF ChunkInv
  <2>2. s \in Nat /\ Len(chunkDoc) \in Nat /\ \A x \in 1..Len(chunkDoc) : chunkDoc[x].words \in Nat
    BY <2>1, ChunkTypes
  <2> QED
    BY <1>1, <2>2
<1>3. /\ chunkList' \in Seq(ChunkRecord')
      /\ ChunkOrdered'
      /\ (\A c \in 1..Len(chunkList) : ChunkGood(chunkList[c]))'
      /\ \A h, w : ChunkCovered(h, w)' <=> ChunkCovered(h, w)
      /\ ChunkLast' = ChunkLast
  BY <1>1, ChunkKept
<1>4. /\ Chunks!PathUnder(L) = [k \in 1..L |-> Chunks!Above(s + 1, k)]
      /\ Chunks!PathUnder(L) \in Seq(0..Len(chunkDoc))
  BY <1>1, ChunkPathUnder DEF ChunkInv
<1>5. Chunks!TypeOK'
  <2>1. chunkSection' \in 0..Len(chunkDoc')
    BY <1>1, <1>2
  <2>2. chunkPath' \in Seq(0..Len(chunkDoc'))
    BY <1>1, <1>4
  <2> QED
    BY <1>1, <1>3, <2>1, <2>2 DEF ChunkInv, Chunks!TypeOK, ChunkRecord
<1>6. ChunkSpans'
  <2>1. chunkPc' # "section" => chunkDoc[s + 1].words > 0
    BY <1>1, <1>2
  <2> QED
    BY <1>1, <1>2, <2>1 DEF ChunkSpans, ChunkPacking, Chunks!Words
<1>7. ChunkHandful'
  BY <1>1 DEF ChunkHandful, ChunkPacking
<1>8. ChunkReach'
  <2>1. ASSUME NEW h \in 1..(s + 1), h < s + 1 \/ chunkPc' = "section", NEW w \in 1..chunkDoc[h].words
        PROVE  ChunkCovered(h, w)'
    <3>1. CASE h \in 1..s
      BY <1>1, <1>3, <2>1, <3>1 DEF ChunkInv, ChunkReach
    <3>2. CASE h = s + 1
      <4>1. chunkDoc[h].words = 0
        BY <1>1, <1>2, <2>1, <3>2
      <4> QED
        BY <2>1, <4>1
    <3> QED
      BY <1>2, <2>1, <3>1, <3>2
  <2>2. chunkList # << >> => ChunkLast.section <= s /\ ChunkLast.section \in Nat
    <3> SUFFICES ASSUME chunkList # << >> PROVE ChunkLast.section <= s /\ ChunkLast.section \in Nat
      OBVIOUS
    <3>1. ChunkLast \in ChunkRecord
      BY ChunkLastType DEF ChunkInv
    <3> QED
      BY <1>2, <3>1 DEF ChunkInv, ChunkReach, ChunkRecord
  <2>3. chunkList # << >> => ChunkLast.section < s + 1 /\ ChunkLast.section <= s + 1
    BY <1>2, <2>2
  <2>4. ~ChunkPacking'
    BY <1>1 DEF ChunkPacking
  <2> QED
    BY <1>1, <1>3, <2>1, <2>3, <2>4 DEF ChunkReach
<1>9. ChunkPlace'
  BY <1>1, <1>2, <1>4 DEF ChunkPlace, Chunks!Above
<1> QED
  BY <1>3, <1>5, <1>6, <1>7, <1>8, <1>9 DEF ChunkInv

LEMMA ChunkWholeSection == ChunkInv /\ Chunks!WholeSection => ChunkInv'
<1> SUFFICES ASSUME ChunkInv, Chunks!WholeSection PROVE ChunkInv'
  OBVIOUS
<1> DEFINE s == chunkSection
           W == chunkDoc[s].words
<1>0. PICK e : e = [section |-> s, path |-> chunkPath, first |-> 1, last |-> W, tokens |-> Chunks!Count(1, W), fresh |-> 1]
  OBVIOUS
<1>1. /\ chunkPc = "body" /\ chunkPc' = "section" /\ chunkSection' = s /\ chunkPath' = chunkPath
      /\ chunkDoc' = chunkDoc /\ chunkLimit' = chunkLimit /\ chunkKind' = chunkKind /\ chunkUnits' = chunkUnits
      /\ chunkPos' = chunkPos /\ chunkCurrent' = chunkCurrent /\ chunkTail' = chunkTail
      /\ chunkList' = Append(chunkList, e)
  BY <1>0 DEF Chunks!WholeSection, Chunks!Chunk, Chunks!Words
<1>2. /\ s \in 1..Len(chunkDoc) /\ s \in Nat /\ s # 0 /\ W \in Nat /\ W > 0 /\ chunkKind # "null"
  <2>1. s \in 1..Len(chunkDoc) /\ W > 0
    BY <1>1 DEF ChunkInv, ChunkSpans, Chunks!Words
  <2>2. s \in Nat /\ Len(chunkDoc) \in Nat /\ \A x \in 1..Len(chunkDoc) : chunkDoc[x].words \in Nat
    BY ChunkTypes DEF ChunkInv
  <2> QED
    BY <2>1, <2>2 DEF ChunkInv, ChunkSpans
<1>3. e \in ChunkRecord
  <2>1. Chunks!Count(1, W) \in Nat
    <3>1. chunkDoc \in ChunkDocuments /\ s \in DOMAIN chunkDoc
      BY <1>2, ChunkTypes DEF ChunkInv, Chunks!TypeOK
    <3>2. chunkDoc[s].count \in [(1..W) \X (1..W) -> Nat]
      BY <3>1, ChunkAssumption DEF Chunks!Parameters
    <3>3. << 1, W >> \in (1..W) \X (1..W)
      BY <1>2
    <3> HIDE DEF W
    <3> QED
      BY <3>2, <3>3 DEF Chunks!Count
  <2>2. chunkPath \in Seq(0..Len(chunkDoc))
    BY DEF ChunkInv, Chunks!TypeOK
  <2> HIDE DEF W
  <2> QED
    BY <1>0, <1>2, <2>1, <2>2 DEF ChunkRecord
<1>4. ChunkGood(e)
  <2>1. e.path = [k \in 1..chunkDoc[e.section].level |-> Chunks!Above(e.section, k)]
    BY <1>0, <1>2 DEF ChunkInv, ChunkPlace
  <2> QED
    BY <1>0, <2>1 DEF ChunkGood
<1>5. chunkList # << >> => ChunkFollows(ChunkLast, e)
  BY <1>0, <1>1 DEF ChunkInv, ChunkReach, ChunkFollows
<1>6. e.section = s /\ e.first = 1 /\ e.last = W
  BY <1>0
<1>7. /\ chunkList' \in Seq(ChunkRecord')
      /\ ChunkOrdered'
      /\ (\A c \in 1..Len(chunkList) : ChunkGood(chunkList[c]))'
      /\ \A h, w : ChunkCovered(h, w) => ChunkCovered(h, w)'
      /\ \A w \in e.first..e.last : ChunkCovered(e.section, w)'
      /\ chunkList' # << >> /\ ChunkLast' = e
  BY <1>1, <1>3, <1>4, <1>5, ChunkAdded
<1>8. Chunks!TypeOK'
  BY <1>1, <1>7 DEF ChunkInv, Chunks!TypeOK, ChunkRecord
<1>9. ChunkSpans'
  BY <1>1, <1>2 DEF ChunkSpans, ChunkPacking, Chunks!Words
<1>10. ChunkHandful'
  BY <1>1 DEF ChunkHandful, ChunkPacking
<1>11. ChunkReach'
  <2>1. ASSUME NEW h \in 1..s, NEW w \in 1..chunkDoc[h].words PROVE ChunkCovered(h, w)'
    <3>1. CASE h < s
      BY <1>7, <2>1, <3>1 DEF ChunkInv, ChunkReach
    <3>2. CASE h = s
      BY <1>6, <1>7, <2>1, <3>2
    <3> QED
      BY <1>2, <2>1, <3>1, <3>2
  <2>2. ChunkLast'.section <= s /\ ~ChunkPacking'
    BY <1>1, <1>2, <1>6, <1>7 DEF ChunkPacking
  <2> QED
    BY <1>1, <2>1, <2>2 DEF ChunkReach
<1>12. ChunkPlace'
  BY <1>1, ChunkAboveStays DEF ChunkInv, ChunkPlace
<1> QED
  BY <1>7, <1>8, <1>9, <1>10, <1>11, <1>12 DEF ChunkInv

\* What the steps that leave the section and the chunks alone keep.
LEMMA ChunkSame ==
    ASSUME ChunkInv, chunkDoc' = chunkDoc, chunkLimit' = chunkLimit, chunkKind' = chunkKind,
           chunkSection' = chunkSection, chunkPath' = chunkPath
    PROVE  ChunkPlace' /\ (chunkPc # "section" /\ chunkPc' # "section" => chunkSection' \in 1..Len(chunkDoc') /\ (Chunks!Words > 0)')
BY ChunkAboveStays DEF ChunkInv, ChunkPlace, ChunkSpans, Chunks!Words

LEMMA ChunkBegin == ChunkInv /\ Chunks!Begin => ChunkInv'
<1> SUFFICES ASSUME ChunkInv, Chunks!Begin PROVE ChunkInv'
  OBVIOUS
<1>1. /\ chunkPc = "body" /\ chunkPc' = "split" /\ chunkSection' = chunkSection /\ chunkPath' = chunkPath
      /\ chunkDoc' = chunkDoc /\ chunkLimit' = chunkLimit /\ chunkKind' = chunkKind /\ chunkUnits' = << >>
      /\ chunkPos' = 1 /\ chunkCurrent' = Chunks!None /\ chunkTail' = Chunks!None /\ chunkList' = chunkList
  BY DEF Chunks!Begin
<1>2. /\ chunkList' \in Seq(ChunkRecord')
      /\ ChunkOrdered'
      /\ (\A c \in 1..Len(chunkList) : ChunkGood(chunkList[c]))'
      /\ \A h, w : ChunkCovered(h, w)' <=> ChunkCovered(h, w)
      /\ ChunkLast' = ChunkLast
  BY <1>1, ChunkKept
<1>3. Chunks!None' = Chunks!None /\ Chunks!None \in Chunks!Run /\ Chunks!Run' = Chunks!Run
  BY DEF Chunks!None, Chunks!Run
<1>4. Chunks!TypeOK'
  <2>1. << >> \in Seq([first : Nat, last : Nat])
    OBVIOUS
  <2> QED
    BY <1>1, <1>2, <1>3, <2>1 DEF ChunkInv, Chunks!TypeOK, ChunkRecord
<1>5. ChunkSpans'
  <2>1. Len(chunkUnits') = 0 /\ 1..0 = {} /\ ~ChunkPacking'
    BY <1>1 DEF ChunkPacking
  <2>2. chunkSection' > 0 => chunkKind' # "null"
    BY <1>1 DEF ChunkInv, ChunkSpans
  <2> QED
    BY <1>1, <2>1, <2>2, ChunkSame DEF ChunkSpans
<1>6. ChunkHandful'
  BY <1>1, <1>3 DEF ChunkHandful, ChunkPacking
<1>7. ChunkReach'
  BY <1>1, <1>2 DEF ChunkInv, ChunkReach, ChunkPacking
<1> QED
  BY <1>1, <1>2, <1>4, <1>5, <1>6, <1>7, ChunkSame DEF ChunkInv

LEMMA ChunkSplit == ChunkInv /\ Chunks!Split => ChunkInv'
<1> SUFFICES ASSUME ChunkInv, Chunks!Split PROVE ChunkInv'
  OBVIOUS
<1> DEFINE n == Len(chunkUnits)
           a == Chunks!NextWord
           W == Chunks!Words
<1>1. /\ chunkPc = "split" /\ chunkSection' = chunkSection /\ chunkPath' = chunkPath
      /\ chunkDoc' = chunkDoc /\ chunkLimit' = chunkLimit /\ chunkKind' = chunkKind
      /\ chunkPos' = chunkPos /\ chunkCurrent' = chunkCurrent /\ chunkTail' = chunkTail /\ chunkList' = chunkList
  BY DEF Chunks!Split
<1>2. /\ chunkList' \in Seq(ChunkRecord')
      /\ ChunkOrdered'
      /\ (\A c \in 1..Len(chunkList) : ChunkGood(chunkList[c]))'
      /\ \A h, w : ChunkCovered(h, w)' <=> ChunkCovered(h, w)
      /\ ChunkLast' = ChunkLast
  BY <1>1, ChunkKept
<1>3. chunkPos = 1 /\ chunkCurrent = Chunks!None /\ W' = W
  BY <1>1 DEF ChunkInv, ChunkHandful, Chunks!Words
<1>4. /\ chunkUnits \in Seq([first : Nat, last : Nat]) /\ n \in Nat /\ W \in Nat /\ W > 0
      /\ chunkSection \in 1..Len(chunkDoc)
      /\ \A i \in 1..n : chunkUnits[i].first \in Nat /\ chunkUnits[i].last \in Nat
  <2>1. Chunks!TypeOK
    BY DEF ChunkInv
  <2>2. chunkSection \in 1..Len(chunkDoc) /\ W > 0
    BY <1>1 DEF ChunkInv, ChunkSpans
  <2>3. W \in Nat /\ n \in Nat /\ \A i \in 1..n : chunkUnits[i].first \in Nat /\ chunkUnits[i].last \in Nat
    BY <2>1, <2>2, ChunkTypes DEF Chunks!Words
  <2> QED
    BY <2>1, <2>2, <2>3 DEF Chunks!TypeOK
<1>5. n = 0 <=> chunkUnits = << >>
  BY <1>4, EmptySeq
<1>6. /\ \A i \in 1..n : /\ 1 <= chunkUnits[i].first /\ chunkUnits[i].first <= chunkUnits[i].last
                         /\ chunkUnits[i].last <= W
                         /\ i = 1 => chunkUnits[i].first = 1
      /\ \A i, j \in 1..n : j = i + 1 => chunkUnits[j].first = chunkUnits[i].last + 1
      /\ \A i, j \in 1..n : i < j => chunkUnits[i].last < chunkUnits[j].first
  BY <1>1 DEF ChunkInv, ChunkSpans
<1>7. a = IF n = 0 THEN 1 ELSE chunkUnits[n].last + 1
  BY <1>5 DEF Chunks!NextWord
<1>8. chunkSection' > 0 => chunkKind' # "null"
  BY <1>1 DEF ChunkInv, ChunkSpans
<1>9. CASE a <= W
  <2>0. PICK u : u = [first |-> a, last |-> Chunks!UnitEnd(a)]
    OBVIOUS
  <2>1. chunkUnits' = Append(chunkUnits, u) /\ chunkPc' = "split"
    BY <1>1, <1>9, <2>0 DEF Chunks!Split
  <2>2. a \in 1..W /\ a \in Nat
    <3>1. CASE n = 0
      BY <1>4, <1>7, <3>1
    <3>2. CASE n # 0
      BY <1>4, <1>6, <1>7, <1>9, <3>2
    <3> QED
      BY <3>1, <3>2
  <2>3. u.first = a /\ u.last \in a..W /\ u \in [first : Nat, last : Nat]
    <3>1. Chunks!UnitEnd(a) \in a..W
      BY <1>4, <2>2, ChunkUnitEnd DEF ChunkInv
    <3> HIDE DEF a, W
    <3>2. u.first = a /\ u.last = Chunks!UnitEnd(a)
      BY <2>0
    <3>3. Chunks!UnitEnd(a) \in Nat
      BY <1>4, <2>2, <3>1
    <3> QED
      BY <2>0, <2>2, <3>1, <3>2, <3>3
  <2> HIDE DEF a, W
  <2>4. /\ chunkUnits' \in Seq([first : Nat, last : Nat]) /\ Len(chunkUnits') = n + 1 /\ chunkUnits'[n + 1] = u
        /\ \A i \in 1..n : chunkUnits'[i] = chunkUnits[i]
    BY <1>4, <2>1, <2>3, Appended
  <2> HIDE DEF n
  <2>5. \A i \in 1..(n + 1) : i \in 1..n \/ i = n + 1
    BY <1>4
  <2>6. u.first \in Nat /\ u.last \in Nat /\ 1 <= u.first /\ u.first <= u.last /\ u.last <= W
    BY <1>4, <2>2, <2>3
  <2>7. \A i \in 1..n : chunkUnits[i].last < u.first
    <3>1. ASSUME NEW i \in 1..n PROVE chunkUnits[i].last < u.first
      <4>1. n \in 1..n /\ u.first = chunkUnits[n].last + 1 /\ chunkUnits[n].last \in Nat
        BY <1>4, <1>7, <2>3, <3>1
      <4>2. chunkUnits[i].last <= chunkUnits[n].last
        <5>1. CASE i = n
          BY <1>4, <4>1, <5>1
        <5>2. CASE i < n
          <6>1. chunkUnits[i].last < chunkUnits[n].first /\ chunkUnits[n].first <= chunkUnits[n].last
            BY <1>6, <4>1, <5>2, <3>1
          <6>2. chunkUnits[i].last \in Nat /\ chunkUnits[n].first \in Nat /\ chunkUnits[n].last \in Nat
            BY <1>4, <3>1, <4>1
          <6> QED
            BY <6>1, <6>2
        <5> QED
          BY <1>4, <3>1, <5>1, <5>2
      <4>3. chunkUnits[i].last \in Nat
        BY <1>4, <3>1
      <4> QED
        BY <4>1, <4>2, <4>3
    <3> QED
      BY <3>1
  <2>8. /\ \A i \in 1..(n + 1) : /\ 1 <= chunkUnits'[i].first /\ chunkUnits'[i].first <= chunkUnits'[i].last
                                 /\ chunkUnits'[i].last <= W
                                 /\ i = 1 => chunkUnits'[i].first = 1
        /\ \A i, j \in 1..(n + 1) : j = i + 1 => chunkUnits'[j].first = chunkUnits'[i].last + 1
        /\ \A i, j \in 1..(n + 1) : i < j => chunkUnits'[i].last < chunkUnits'[j].first
    <3>1. ASSUME NEW i \in 1..(n + 1)
          PROVE  /\ 1 <= chunkUnits'[i].first /\ chunkUnits'[i].first <= chunkUnits'[i].last
                 /\ chunkUnits'[i].last <= W
                 /\ i = 1 => chunkUnits'[i].first = 1
      <4>1. CASE i \in 1..n
        BY <1>6, <2>4, <4>1
      <4>2. CASE i = n + 1
        <5>1. i = 1 => u.first = 1
          BY <1>4, <1>7, <2>3, <4>2
        <5> QED
          BY <2>4, <2>6, <4>2, <5>1
      <4> QED
        BY <2>5, <3>1, <4>1, <4>2
    <3>2. ASSUME NEW i \in 1..(n + 1), NEW j \in 1..(n + 1), i < j
          PROVE  /\ j = i + 1 => chunkUnits'[j].first = chunkUnits'[i].last + 1
                 /\ chunkUnits'[i].last < chunkUnits'[j].first
      <4>1. i \in 1..n /\ chunkUnits'[i] = chunkUnits[i]
        BY <1>4, <2>4, <3>2
      <4>2. CASE j \in 1..n
        BY <1>6, <2>4, <3>2, <4>1, <4>2
      <4>3. CASE j = n + 1
        <5>1. j = i + 1 => u.first = chunkUnits[i].last + 1
          <6>1. j = i + 1 => i = n /\ n # 0
            BY <1>4, <4>1, <4>3
          <6>2. n # 0 => u.first = chunkUnits[n].last + 1
            BY <1>7, <2>3
          <6> QED
            BY <6>1, <6>2
        <5> QED
          BY <2>4, <2>7, <4>1, <4>3, <5>1
      <4> QED
        BY <2>5, <3>2, <4>2, <4>3
    <3>3. \A i, j \in 1..(n + 1) : j = i + 1 => i < j
      BY <1>4
    <3> QED
      BY <3>1, <3>2, <3>3
  <2>9. ChunkSpans'
    <3>1. ~ChunkPacking' /\ chunkPc' # "section"
      BY <2>1 DEF ChunkPacking
    <3>2. chunkPc # "section"
      BY <1>1
    <3>3. chunkSection' \in 1..Len(chunkDoc') /\ (Chunks!Words > 0)'
      BY <1>1, <3>1, <3>2, ChunkSame
    <3>4. /\ \A i \in 1..Len(chunkUnits') :
                 /\ 1 <= chunkUnits'[i].first /\ chunkUnits'[i].first <= chunkUnits'[i].last
                 /\ chunkUnits'[i].last <= Chunks!Words'
                 /\ i = 1 => chunkUnits'[i].first = 1
          /\ \A i, j \in 1..Len(chunkUnits') : j = i + 1 => chunkUnits'[j].first = chunkUnits'[i].last + 1
          /\ \A i, j \in 1..Len(chunkUnits') : i < j => chunkUnits'[i].last < chunkUnits'[j].first
      BY <1>3, <2>4, <2>8 DEF W
    <3> QED
      BY <1>8, <3>1, <3>3, <3>4 DEF ChunkSpans
  <2>10. ChunkHandful'
    <3>1. Chunks!None' = Chunks!None
      BY DEF Chunks!None
    <3> QED
      BY <1>1, <1>3, <2>1, <3>1 DEF ChunkHandful, ChunkPacking
  <2>11. ChunkReach'
    BY <1>1, <1>2, <2>1 DEF ChunkInv, ChunkReach, ChunkPacking
  <2>12. Chunks!TypeOK'
    BY <1>1, <1>2, <2>1, <2>4 DEF ChunkInv, Chunks!TypeOK, ChunkRecord, Chunks!Run
  <2> QED
    BY <1>1, <1>2, <2>9, <2>10, <2>11, <2>12, ChunkSame DEF ChunkInv
<1>10. CASE ~ (a <= W)
  <2>1. chunkUnits' = chunkUnits /\ chunkPc' = "pack"
    BY <1>1, <1>10 DEF Chunks!Split
  <2>2. n > 0 /\ chunkUnits[n].last = W
    <3>1. n # 0
      BY <1>4, <1>7, <1>10
    <3>2. n \in 1..n
      BY <1>4, <3>1
    <3> HIDE DEF n, a, W
    <3>3. a = chunkUnits[n].last + 1 /\ chunkUnits[n].last \in Nat /\ chunkUnits[n].last <= W
      BY <1>4, <1>6, <1>7, <3>1, <3>2
    <3> QED
      BY <1>4, <1>10, <3>1, <3>3
  <2> HIDE DEF n, W
  <2>3. ChunkSpans'
    <3>1. chunkPc # "section" /\ chunkPc' # "section"
      BY <1>1, <2>1
    <3>2. chunkSection' \in 1..Len(chunkDoc') /\ (Chunks!Words > 0)'
      BY <1>1, <3>1, ChunkSame
    <3>3. Len(chunkUnits') > 0 /\ chunkUnits'[Len(chunkUnits')].last = Chunks!Words'
      BY <1>3, <2>1, <2>2 DEF W, n
    <3>4. /\ \A i \in 1..Len(chunkUnits') :
                 /\ 1 <= chunkUnits'[i].first /\ chunkUnits'[i].first <= chunkUnits'[i].last
                 /\ chunkUnits'[i].last <= Chunks!Words'
                 /\ i = 1 => chunkUnits'[i].first = 1
          /\ \A i, j \in 1..Len(chunkUnits') : j = i + 1 => chunkUnits'[j].first = chunkUnits'[i].last + 1
          /\ \A i, j \in 1..Len(chunkUnits') : i < j => chunkUnits'[i].last < chunkUnits'[j].first
      BY <1>3, <1>6, <2>1 DEF W, n
    <3> QED
      BY <1>8, <3>2, <3>3, <3>4 DEF ChunkSpans
  <2>4. /\ ChunkHand' = Chunks!None /\ Chunks!None' = Chunks!None
        /\ Chunks!None.from = 1 /\ Chunks!None.fresh = 1 /\ Chunks!None.tokens = 0
    BY <1>1, <1>3, <2>1 DEF ChunkHand, Chunks!None
  <2>5. ChunkHandful'
    <3>1. chunkLimit.size \in Nat
      BY ChunkTypes DEF ChunkInv
    <3>2. Len(chunkUnits') \in Nat /\ Len(chunkUnits') > 0
      BY <1>4, <2>1, <2>2 DEF n
    <3> QED
      BY <1>1, <1>3, <2>1, <2>4, <3>1, <3>2 DEF ChunkHandful
  <2>6. ChunkReach'
    <3>1. 1 \in 1..n /\ chunkUnits'[1].first = 1
      BY <1>4, <1>6, <2>1, <2>2
    <3>2. chunkUnits'[ChunkHand'.fresh].first - 1 = 0 /\ ChunkHand'.fresh = 1
      BY <2>4, <3>1
    <3>3. \A w \in 1..(chunkUnits'[ChunkHand'.fresh].first - 1) : ChunkCovered(chunkSection, w)'
      BY <3>2
    <3>4. chunkPc' = "pack"
      BY <2>1
    <3>5. chunkList # << >> => ChunkLast.section < chunkSection /\ ChunkLast.section <= chunkSection
      BY <1>1 DEF ChunkInv, ChunkReach
    <3>6. \A s \in 1..chunkSection : s < chunkSection => \A w \in 1..chunkDoc[s].words : ChunkCovered(s, w)
      BY DEF ChunkInv, ChunkReach
    <3>7. \A s \in 1..chunkSection' : s < chunkSection' \/ chunkPc' = "section" =>
             \A w \in 1..chunkDoc'[s].words : ChunkCovered(s, w)'
      BY <1>1, <1>2, <3>4, <3>6
    <3> QED
      BY <1>1, <1>2, <3>2, <3>3, <3>4, <3>5, <3>7 DEF ChunkReach
  <2>7. Chunks!TypeOK'
    BY <1>1, <1>2, <2>1 DEF ChunkInv, Chunks!TypeOK, ChunkRecord, Chunks!Run
  <2> QED
    BY <1>1, <1>2, <2>3, <2>5, <2>6, <2>7, ChunkSame DEF ChunkInv
<1> QED
  BY <1>9, <1>10

\* Steps that leave the text, the section and its units alone.
LEMMA ChunkPacked ==
    ASSUME ChunkInv, ChunkPacking, chunkDoc' = chunkDoc, chunkLimit' = chunkLimit, chunkKind' = chunkKind,
           chunkSection' = chunkSection, chunkPath' = chunkPath, chunkUnits' = chunkUnits,
           chunkPc' \in {"pack", "overlap", "repeat", "section"}
    PROVE  ChunkSpans' /\ ChunkPlace'
<1>1. ChunkPlace'
  BY ChunkSame
<1>2. chunkPc # "section"
  BY DEF ChunkPacking
<1>3. Chunks!Words' = Chunks!Words
  BY DEF Chunks!Words
<1>4. chunkPc' # "section" => ChunkPacking' /\ chunkPc' # "split"
  BY DEF ChunkPacking
<1>5. chunkPc' = "section" => ~ChunkPacking'
  BY DEF ChunkPacking
<1>6. chunkSection \in 1..Len(chunkDoc) /\ Chunks!Words > 0 /\ (chunkSection > 0 => chunkKind # "null")
  BY <1>2 DEF ChunkInv, ChunkSpans
<1>7. /\ \A i \in 1..Len(chunkUnits) :
            /\ 1 <= chunkUnits[i].first /\ chunkUnits[i].first <= chunkUnits[i].last
            /\ chunkUnits[i].last <= Chunks!Words
            /\ i = 1 => chunkUnits[i].first = 1
      /\ \A i, j \in 1..Len(chunkUnits) : j = i + 1 => chunkUnits[j].first = chunkUnits[i].last + 1
      /\ \A i, j \in 1..Len(chunkUnits) : i < j => chunkUnits[i].last < chunkUnits[j].first
      /\ Len(chunkUnits) > 0 /\ chunkUnits[Len(chunkUnits)].last = Chunks!Words
  BY DEF ChunkInv, ChunkSpans
<1> HIDE DEF Chunks!Words
<1>8. ChunkSpans'
  BY <1>3, <1>4, <1>5, <1>6, <1>7 DEF ChunkSpans
<1> QED
  BY <1>1, <1>8

LEMMA ChunkTake == ChunkInv /\ Chunks!Take => ChunkInv'
<1> SUFFICES ASSUME ChunkInv, Chunks!Take PROVE ChunkInv'
  OBVIOUS
<1> DEFINE n == Len(chunkUnits)
           c == chunkCurrent
           t == Chunks!Tokens(chunkPos)
<1>1. /\ chunkPc \in {"pack", "repeat"} /\ chunkPc' = "pack" /\ chunkPos' = chunkPos + 1
      /\ chunkCurrent' = [c EXCEPT !.tokens = @ + t]
      /\ chunkSection' = chunkSection /\ chunkPath' = chunkPath /\ chunkUnits' = chunkUnits
      /\ chunkDoc' = chunkDoc /\ chunkLimit' = chunkLimit /\ chunkKind' = chunkKind
      /\ chunkTail' = chunkTail /\ chunkList' = chunkList
  BY DEF Chunks!Take
<1>2. chunkPc = "pack" => chunkPos <= n /\ (c.from = chunkPos \/ c.tokens + t <= chunkLimit.size)
  BY DEF Chunks!Take, Chunks!Empty, Chunks!Fits
<1>3. /\ chunkList' \in Seq(ChunkRecord')
      /\ ChunkOrdered'
      /\ (\A d \in 1..Len(chunkList) : ChunkGood(chunkList[d]))'
      /\ \A h, w : ChunkCovered(h, w)' <=> ChunkCovered(h, w)
      /\ ChunkLast' = ChunkLast
  BY <1>1, ChunkKept
<1>4. ChunkPacking /\ ChunkPacking' /\ ChunkHand = c /\ ChunkHand' = chunkCurrent'
  BY <1>1 DEF ChunkPacking, ChunkHand
<1>5. /\ n \in Nat /\ chunkPos \in Nat \ {0} /\ c.from \in Nat \ {0} /\ c.fresh \in Nat \ {0} /\ c.tokens \in Nat
      /\ chunkLimit.size \in Nat /\ c \in Chunks!Run
  <2>1. Chunks!TypeOK /\ c \in Chunks!Run
    BY DEF ChunkInv, Chunks!TypeOK
  <2> QED
    BY <2>1, ChunkTypes
<1>6. c.from <= c.fresh /\ c.fresh <= chunkPos /\ c.fresh <= n
  BY <1>4 DEF ChunkInv, ChunkHandful
<1>7. chunkPos <= n /\ (chunkPc = "repeat" => c.fresh = chunkPos)
  BY <1>1, <1>2, <1>4 DEF ChunkInv, ChunkHandful
<1>8. t \in Nat
  <2>1. chunkPos \in 1..n
    BY <1>5, <1>7
  <2> QED
    BY <1>4, <2>1, ChunkTokens DEF ChunkInv
<1> HIDE DEF t, n
<1>9. chunkCurrent'.from = c.from /\ chunkCurrent'.fresh = c.fresh /\ chunkCurrent'.tokens = c.tokens + t
      /\ chunkCurrent' \in Chunks!Run
  BY <1>1, <1>5, <1>8 DEF Chunks!Run
<1> HIDE DEF c
<1>10. ChunkHandful'
  <2>1. Len(chunkUnits') = n
    BY <1>1 DEF n
  <2>2. c.tokens + t <= chunkLimit.size \/ chunkPos + 1 = c.fresh + 1
    BY <1>1, <1>2, <1>5, <1>6, <1>7, <1>8
  <2>3. chunkPos' # 1 /\ chunkPos' <= n + 1 /\ c.fresh < chunkPos'
    BY <1>1, <1>5, <1>6, <1>7
  <2>4. chunkPc' = "pack"
    BY <1>1
  <2> QED
    BY <1>1, <1>4, <1>5, <1>6, <1>9, <2>1, <2>2, <2>3, <2>4 DEF ChunkHandful
<1>11. ChunkReach'
  <2>1. ChunkHand'.from = ChunkHand.from /\ ChunkHand'.fresh = ChunkHand.fresh
    BY <1>4, <1>9 DEF c
  <2>2. chunkPc # "section" /\ chunkPc' = "pack"
    BY <1>1
  <2>3. chunkList # << >> => ChunkLast.section <= chunkSection
    BY DEF ChunkInv, ChunkReach
  <2>4. \A s \in 1..chunkSection' : s < chunkSection' \/ chunkPc' = "section" =>
           \A w \in 1..chunkDoc'[s].words : ChunkCovered(s, w)'
    BY <1>1, <1>3, <2>2 DEF ChunkInv, ChunkReach
  <2>5. \A w \in 1..(chunkUnits'[ChunkHand'.fresh].first - 1) : ChunkCovered(chunkSection, w)'
    BY <1>1, <1>3, <1>4, <2>1 DEF ChunkInv, ChunkReach
  <2>6. IF ChunkHand'.fresh = 1 THEN chunkList' # << >> => ChunkLast'.section < chunkSection'
        ELSE /\ chunkList' # << >> /\ ChunkLast'.section = chunkSection'
             /\ ChunkLast'.last + 1 = chunkUnits'[ChunkHand'.fresh].first
             /\ ChunkLast'.first <= chunkUnits'[ChunkHand'.from].first
    BY <1>1, <1>3, <1>4, <2>1 DEF ChunkInv, ChunkReach
  <2> QED
    BY <1>1, <1>3, <2>2, <2>3, <2>4, <2>5, <2>6 DEF ChunkReach
<1>12. Chunks!TypeOK'
  <2>1. chunkPos' \in Nat \ {0}
    BY <1>1, <1>5
  <2> QED
    BY <1>1, <1>3, <1>9, <2>1 DEF ChunkInv, Chunks!TypeOK, ChunkRecord, Chunks!Run
<1> QED
  BY <1>1, <1>3, <1>4, <1>10, <1>11, <1>12, ChunkPacked DEF ChunkInv

LEMMA ChunkEmit == ChunkInv /\ Chunks!Emit => ChunkInv'
<1> SUFFICES ASSUME ChunkInv, Chunks!Emit PROVE ChunkInv'
  OBVIOUS
<1> DEFINE n == Len(chunkUnits)
           c == chunkCurrent
<1>0. PICK e : e = Chunks!InHand
  OBVIOUS
<1>1. /\ chunkPc = "pack" /\ chunkPc' = "overlap" /\ chunkPos' = chunkPos /\ chunkCurrent' = c
      /\ chunkPos <= n /\ c.from # chunkPos
      /\ chunkTail' = [from |-> chunkPos, tokens |-> 0, fresh |-> chunkPos]
      /\ chunkSection' = chunkSection /\ chunkPath' = chunkPath /\ chunkUnits' = chunkUnits
      /\ chunkDoc' = chunkDoc /\ chunkLimit' = chunkLimit /\ chunkKind' = chunkKind
      /\ chunkList' = Append(chunkList, e)
  BY <1>0 DEF Chunks!Emit, Chunks!Empty
<1>2. /\ e \in ChunkRecord /\ ChunkGood(e)
      /\ chunkList # << >> => ChunkFollows(ChunkLast, e)
      /\ e.section = chunkSection /\ e.first = chunkUnits[c.from].first /\ e.last = chunkUnits[chunkPos - 1].last
      /\ chunkPos - 1 \in 1..n
      /\ \A w \in 1..chunkUnits[chunkPos - 1].last : ChunkCovered(chunkSection, w) \/ w \in e.first..e.last
  BY <1>0, <1>1, ChunkOfHand
<1>3. /\ chunkList' \in Seq(ChunkRecord')
      /\ ChunkOrdered'
      /\ (\A d \in 1..Len(chunkList) : ChunkGood(chunkList[d]))'
      /\ \A h, w : ChunkCovered(h, w) => ChunkCovered(h, w)'
      /\ \A w \in e.first..e.last : ChunkCovered(e.section, w)'
      /\ chunkList' # << >> /\ ChunkLast' = e
  BY <1>1, <1>2, ChunkAdded
<1>4. ChunkPacking /\ ChunkPacking' /\ ChunkHand = c /\ ChunkHand' = chunkTail'
  BY <1>1 DEF ChunkPacking, ChunkHand
<1>5. /\ n \in Nat /\ chunkPos \in Nat \ {0} /\ c.from \in Nat \ {0} /\ c.fresh \in Nat \ {0}
      /\ Chunks!Overlap \in Nat /\ chunkSection \in Nat
      /\ \A i \in 1..n : chunkUnits[i].first \in Nat /\ chunkUnits[i].last \in Nat
  BY ChunkTypes DEF ChunkInv
<1>6. c.from <= c.fresh /\ c.fresh <= chunkPos /\ c.fresh <= n
  BY <1>4 DEF ChunkInv, ChunkHandful
<1> HIDE DEF n
<1>7. c.from < chunkPos /\ chunkPos > 1 /\ chunkPos \in 1..n /\ c.from \in 1..n
  BY <1>1, <1>2, <1>5, <1>6
<1>8. chunkUnits[chunkPos].first = chunkUnits[chunkPos - 1].last + 1
  <2>1. chunkPos - 1 \in 1..n /\ chunkPos = (chunkPos - 1) + 1
    BY <1>2, <1>5
  <2> QED
    BY <1>4, <1>7, <2>1 DEF ChunkInv, ChunkSpans, n
<1>9. chunkTail'.from = chunkPos /\ chunkTail'.fresh = chunkPos /\ chunkTail'.tokens = 0
  BY <1>1
<1>10. ChunkHandful'
  <2>1. Len(chunkUnits') = n /\ Chunks!Overlap' = Chunks!Overlap
    BY <1>1 DEF n, Chunks!Overlap
  <2> HIDE DEF c
  <2>2. chunkPos' = chunkPos /\ chunkPc' = "overlap" /\ chunkCurrent'.from < chunkPos /\ chunkPos <= n /\ chunkPos <= n + 1
    BY <1>1, <1>5, <1>7
  <2>3. chunkCurrent'.from <= chunkTail'.from
    BY <1>5, <1>9, <2>2, <1>1
  <2> QED
    BY <1>4, <1>5, <1>7, <1>9, <2>1, <2>2, <2>3 DEF ChunkHandful
<1>11. ChunkReach'
  <2>1. chunkPc' = "overlap" /\ chunkPc # "section"
    BY <1>1
  <2>2. \A s \in 1..chunkSection' : s < chunkSection' \/ chunkPc' = "section" =>
           \A w \in 1..chunkDoc'[s].words : ChunkCovered(s, w)'
    BY <1>1, <1>3, <2>1 DEF ChunkInv, ChunkReach
  <2>3. ASSUME NEW w \in 1..(chunkUnits[chunkPos].first - 1) PROVE ChunkCovered(chunkSection, w)'
    <3>1. w \in 1..chunkUnits[chunkPos - 1].last
      BY <1>2, <1>5, <1>7, <1>8, <2>3
    <3>2. ChunkCovered(chunkSection, w) \/ w \in e.first..e.last
      BY <1>2, <3>1
    <3>3. PICK s : s = chunkSection
      OBVIOUS
    <3>4. ChunkCovered(s, w)'
      BY <1>2, <1>3, <3>2, <3>3
    <3> QED
      BY <1>1, <3>3, <3>4
  <2>4. chunkUnits'[ChunkHand'.fresh] = chunkUnits[chunkPos] /\ ChunkHand'.fresh # 1
        /\ chunkUnits'[ChunkHand'.from] = chunkUnits[chunkPos]
    BY <1>1, <1>4, <1>7, <1>9
  <2>5. e.first <= chunkUnits[chunkPos].first
    BY <1>2, <1>4, <1>5, <1>7, ChunkMonotone DEF n
  <2>6. e.first = chunkUnits'[chunkCurrent'.from].first
    BY <1>1, <1>2
  <2>7. ChunkLast'.section <= chunkSection' /\ ChunkLast'.section = chunkSection'
    BY <1>1, <1>2, <1>3, <1>5
  <2>8. ChunkLast'.last + 1 = chunkUnits'[ChunkHand'.fresh].first
    BY <1>2, <1>3, <1>8, <2>4
  <2>9. \A w \in 1..(chunkUnits'[ChunkHand'.fresh].first - 1) : ChunkCovered(chunkSection, w)'
    BY <1>1, <2>3, <2>4
  <2> QED
    BY <1>3, <2>1, <2>2, <2>4, <2>5, <2>6, <2>7, <2>8, <2>9 DEF ChunkReach
<1>12. Chunks!TypeOK'
  <2>1. chunkTail' \in Chunks!Run
    BY <1>1, <1>5 DEF Chunks!Run
  <2> QED
    BY <1>1, <1>3, <2>1 DEF ChunkInv, Chunks!TypeOK, ChunkRecord, Chunks!Run
<1> QED
  BY <1>1, <1>3, <1>4, <1>10, <1>11, <1>12, ChunkPacked DEF ChunkInv

LEMMA ChunkTakeOverlap == ChunkInv /\ Chunks!TakeOverlap => ChunkInv'
<1> SUFFICES ASSUME ChunkInv, Chunks!TakeOverlap PROVE ChunkInv'
  OBVIOUS
<1> DEFINE n == Len(chunkUnits)
           c == chunkCurrent
           h == chunkTail
           t == Chunks!Tokens(h.from - 1)
<1>1. /\ chunkPc = "overlap" /\ chunkPos' = chunkPos
      /\ IF Chunks!Repeats
           THEN /\ h' = [h EXCEPT !.from = @ - 1, !.tokens = @ + t]
                /\ chunkPc' = chunkPc /\ chunkCurrent' = c
           ELSE chunkCurrent' = h /\ chunkPc' = "repeat" /\ h' = h
      /\ chunkSection' = chunkSection /\ chunkPath' = chunkPath /\ chunkUnits' = chunkUnits
      /\ chunkDoc' = chunkDoc /\ chunkLimit' = chunkLimit /\ chunkKind' = chunkKind
      /\ chunkList' = chunkList
  BY DEF Chunks!TakeOverlap
<1>2. /\ chunkPc' \in {"overlap", "repeat"} /\ ChunkPacking /\ ChunkPacking' /\ ChunkHand = h
  BY <1>1 DEF ChunkPacking, ChunkHand
<1>3. /\ chunkList' \in Seq(ChunkRecord')
      /\ ChunkOrdered'
      /\ (\A d \in 1..Len(chunkList) : ChunkGood(chunkList[d]))'
      /\ \A s, w : ChunkCovered(s, w)' <=> ChunkCovered(s, w)
      /\ ChunkLast' = ChunkLast
  BY <1>1, ChunkKept
<1>4. /\ n \in Nat /\ chunkPos \in Nat \ {0} /\ c.from \in Nat \ {0} /\ Chunks!Overlap \in Nat /\ c \in Chunks!Run
      /\ h.from \in Nat \ {0} /\ h.fresh \in Nat \ {0} /\ h.tokens \in Nat /\ h \in Chunks!Run
  <2>1. Chunks!TypeOK /\ c \in Chunks!Run /\ h \in Chunks!Run
    BY DEF ChunkInv, Chunks!TypeOK
  <2> QED
    BY <2>1, ChunkTypes
<1>5. /\ h.from <= chunkPos /\ h.fresh = chunkPos /\ chunkPos <= n /\ c.from < chunkPos /\ c.from <= h.from /\ chunkPos > 1
      /\ h.tokens <= Chunks!Overlap \/ h.from = chunkPos - 1
  BY <1>1, <1>2, <1>4 DEF ChunkInv, ChunkHandful
\* The units in hand, after the step.
<1>6. /\ ChunkHand' \in Chunks!Run /\ ChunkHand'.fresh = chunkPos /\ ChunkHand'.from <= chunkPos
      /\ c.from <= ChunkHand'.from /\ ChunkHand'.from \in 1..n
      /\ ChunkHand'.tokens <= Chunks!Overlap \/ ChunkHand'.from = chunkPos - 1
      /\ chunkCurrent' \in Chunks!Run /\ h' \in Chunks!Run
      /\ chunkPc' = "overlap" => chunkCurrent' = c /\ h' = ChunkHand'
  <2>1. CASE Chunks!Repeats
    <3>1. /\ h.from > c.from /\ (h.from < chunkPos => h.tokens + t <= Chunks!Overlap)
      BY <2>1 DEF Chunks!Repeats
    <3>2. h.from - 1 \in 1..n
      BY <1>4, <1>5, <3>1
    <3>3. t \in Nat
      BY <1>2, <3>2, ChunkTokens DEF ChunkInv
    <3> HIDE DEF t
    <3>4. chunkPc' = "overlap" /\ h' = [h EXCEPT !.from = @ - 1, !.tokens = @ + t] /\ chunkCurrent' = c
      BY <1>1, <2>1
    <3>5. h'.from = h.from - 1 /\ h'.fresh = h.fresh /\ h'.tokens = h.tokens + t /\ h' \in Chunks!Run
      <4>1. h.from - 1 \in Nat \ {0} /\ h.tokens + t \in Nat
        BY <1>4, <3>2, <3>3
      <4>2. h'.from = h.from - 1 /\ h'.fresh = h.fresh /\ h'.tokens = h.tokens + t
        BY <1>4, <3>4 DEF Chunks!Run
      <4>3. h' = [from |-> h.from - 1, tokens |-> h.tokens + t, fresh |-> h.fresh]
        BY <1>4, <3>4 DEF Chunks!Run
      <4> QED
        BY <1>4, <4>1, <4>2, <4>3 DEF Chunks!Run
    <3>6. ChunkHand' = h'
      BY <3>4 DEF ChunkHand
    <3>7. h'.tokens <= Chunks!Overlap \/ h'.from = chunkPos - 1
      <4>1. CASE h.from < chunkPos
        BY <3>1, <3>5, <4>1
      <4>2. CASE h.from = chunkPos
        BY <3>5, <4>2
      <4> QED
        BY <1>4, <1>5, <4>1, <4>2
    <3>8. c.from <= h'.from /\ h'.from <= chunkPos
      BY <1>4, <1>5, <3>1, <3>5
    <3> HIDE DEF h, c
    <3> QED
      BY <1>4, <1>5, <3>2, <3>4, <3>5, <3>6, <3>7, <3>8
  <2>2. CASE ~Chunks!Repeats
    <3>1. chunkCurrent' = h /\ chunkPc' = "repeat" /\ h' = h
      BY <1>1, <2>2
    <3>2. ChunkHand' = h
      BY <3>1 DEF ChunkHand
    <3>3. h.from \in 1..n
      BY <1>4, <1>5
    <3> HIDE DEF c
    <3> QED
      BY <1>4, <1>5, <3>1, <3>2, <3>3
  <2> QED
    BY <2>1, <2>2
<1> HIDE DEF n, c, h, t
<1>7. ChunkHandful'
  <2>1. Len(chunkUnits') = n /\ Chunks!Overlap' = Chunks!Overlap
    BY <1>1 DEF n, Chunks!Overlap
  <2>2. chunkPc' = "overlap" => chunkCurrent'.from < chunkPos' /\ chunkCurrent'.from <= chunkTail'.from
    BY <1>1, <1>5, <1>6 DEF h
  <2>3. chunkPos' <= n /\ chunkPos' > 1 /\ chunkPos' <= n + 1 /\ chunkPos' = chunkPos
    BY <1>1, <1>4, <1>5
  <2>4. ChunkHand'.from <= ChunkHand'.fresh /\ ChunkHand'.fresh <= chunkPos' /\ ChunkHand'.fresh <= n
    BY <1>4, <1>5, <1>6, <2>3
  <2>5. chunkPc' # "pack" /\ chunkPc' # "split"
    BY <1>2
  <2> QED
    BY <1>6, <2>1, <2>2, <2>3, <2>4, <2>5 DEF ChunkHandful
<1>8. ChunkReach'
  <2>1. chunkPc # "section" /\ chunkPc' # "section" /\ chunkPc' \notin {"body", "split"}
    BY <1>1, <1>2
  <2>2. \A s \in 1..chunkSection' : s < chunkSection' \/ chunkPc' = "section" =>
           \A w \in 1..chunkDoc'[s].words : ChunkCovered(s, w)'
    BY <1>1, <1>3, <2>1 DEF ChunkInv, ChunkReach
  <2>3. ChunkHand.fresh = chunkPos /\ chunkPos # 1
    BY <1>2, <1>4, <1>5
  <2>4. \A w \in 1..(chunkUnits'[ChunkHand'.fresh].first - 1) : ChunkCovered(chunkSection, w)'
    BY <1>1, <1>2, <1>3, <1>6, <2>3 DEF ChunkInv, ChunkReach
  <2>5. /\ chunkList # << >> /\ ChunkLast.section = chunkSection
        /\ ChunkLast.last + 1 = chunkUnits[chunkPos].first
        /\ ChunkLast.first = chunkUnits[c.from].first
        /\ ChunkLast.section <= chunkSection
    BY <1>1, <1>2, <2>3 DEF ChunkInv, ChunkReach, c
  <2>6. chunkUnits[c.from].first <= chunkUnits[ChunkHand'.from].first
    <3>1. c.from \in 1..n
      BY <1>4, <1>5
    <3> QED
      BY <1>2, <1>6, <3>1, ChunkMonotone DEF n
  <2>7. chunkPc' = "overlap" => ChunkLast'.first = chunkUnits'[chunkCurrent'.from].first
    BY <1>1, <1>3, <1>6, <2>5
  <2>8. /\ chunkList' # << >> /\ ChunkLast'.section = chunkSection' /\ ChunkLast'.section <= chunkSection'
        /\ ChunkLast'.last + 1 = chunkUnits'[ChunkHand'.fresh].first
        /\ ChunkLast'.first <= chunkUnits'[ChunkHand'.from].first
        /\ ChunkHand'.fresh # 1
    BY <1>1, <1>3, <1>6, <2>3, <2>5, <2>6
  <2> QED
    BY <2>1, <2>2, <2>4, <2>7, <2>8 DEF ChunkReach
<1>9. Chunks!TypeOK'
  <2>1. chunkPc' \in {"section", "body", "split", "pack", "overlap", "repeat"}
    BY <1>2
  <2> QED
    BY <1>1, <1>3, <1>4, <1>6, <2>1 DEF ChunkInv, Chunks!TypeOK, ChunkRecord, Chunks!Run, h
<1> QED
  BY <1>1, <1>2, <1>3, <1>7, <1>8, <1>9, ChunkPacked DEF ChunkInv

LEMMA ChunkEmitLast == ChunkInv /\ Chunks!EmitLast => ChunkInv'
<1> SUFFICES ASSUME ChunkInv, Chunks!EmitLast PROVE ChunkInv'
  OBVIOUS
<1> DEFINE n == Len(chunkUnits)
           c == chunkCurrent
<1>0. PICK e : e = Chunks!InHand
  OBVIOUS
<1>1. /\ chunkPc = "pack" /\ chunkPc' = "section" /\ chunkPos' = chunkPos /\ chunkCurrent' = c /\ chunkPos > n
      /\ chunkTail' = chunkTail
      /\ chunkSection' = chunkSection /\ chunkPath' = chunkPath /\ chunkUnits' = chunkUnits
      /\ chunkDoc' = chunkDoc /\ chunkLimit' = chunkLimit /\ chunkKind' = chunkKind
      /\ chunkList' = IF c.from = chunkPos THEN chunkList ELSE Append(chunkList, e)
  BY <1>0 DEF Chunks!EmitLast, Chunks!Empty
<1>2. ChunkPacking /\ ChunkHand = c
  BY <1>1 DEF ChunkPacking, ChunkHand
<1>3. n \in Nat /\ chunkPos \in Nat \ {0} /\ c.from \in Nat \ {0} /\ c.fresh \in Nat \ {0} /\ chunkSection \in Nat
  BY ChunkTypes DEF ChunkInv
<1>4. c.from <= c.fresh /\ c.fresh <= n /\ chunkPos <= n + 1
  BY <1>2 DEF ChunkInv, ChunkHandful
<1>5. c.from # chunkPos /\ chunkPos - 1 = n
  BY <1>1, <1>3, <1>4
<1>6. /\ e \in ChunkRecord /\ ChunkGood(e)
      /\ chunkList # << >> => ChunkFollows(ChunkLast, e)
      /\ e.section = chunkSection /\ e.last = chunkUnits[n].last
      /\ \A w \in 1..chunkUnits[n].last : ChunkCovered(chunkSection, w) \/ w \in e.first..e.last
  BY <1>0, <1>1, <1>5, ChunkOfHand
<1>7. /\ chunkList' \in Seq(ChunkRecord')
      /\ ChunkOrdered'
      /\ (\A d \in 1..Len(chunkList) : ChunkGood(chunkList[d]))'
      /\ \A h, w : ChunkCovered(h, w) => ChunkCovered(h, w)'
      /\ \A w \in e.first..e.last : ChunkCovered(e.section, w)'
      /\ chunkList' # << >> /\ ChunkLast' = e
  BY <1>1, <1>5, <1>6, ChunkAdded
<1>8. ChunkHandful'
  BY <1>1 DEF ChunkHandful, ChunkPacking
<1>9. ChunkReach'
  <2>1. chunkUnits[n].last = chunkDoc[chunkSection].words
    BY <1>2 DEF ChunkInv, ChunkSpans, Chunks!Words, n
  <2>2. ASSUME NEW s \in 1..chunkSection, NEW w \in 1..chunkDoc[s].words PROVE ChunkCovered(s, w)'
    <3>1. CASE s < chunkSection
      BY <1>7, <2>2, <3>1 DEF ChunkInv, ChunkReach
    <3>2. CASE s = chunkSection
      <4>1. ChunkCovered(chunkSection, w) \/ w \in e.first..e.last
        BY <1>6, <2>1, <2>2, <3>2
      <4> QED
        BY <1>6, <1>7, <3>2, <4>1
    <3> QED
      BY <1>3, <2>2, <3>1, <3>2
  <2>3. \A s \in 1..chunkSection' : \A w \in 1..chunkDoc'[s].words : ChunkCovered(s, w)'
    BY <1>1, <2>2
  <2>4. ChunkLast'.section <= chunkSection' /\ ~ChunkPacking'
    BY <1>1, <1>3, <1>6, <1>7 DEF ChunkPacking
  <2> QED
    BY <1>1, <2>3, <2>4 DEF ChunkReach
<1>10. Chunks!TypeOK'
  BY <1>1, <1>7 DEF ChunkInv, Chunks!TypeOK, ChunkRecord, Chunks!Run
<1> QED
  BY <1>1, <1>2, <1>7, <1>8, <1>9, <1>10, ChunkPacked DEF ChunkInv

LEMMA ChunkNext == ChunkInv /\ [Chunks!Next]_(Chunks!vars) => ChunkInv'
<1> SUFFICES ASSUME ChunkInv, [Chunks!Next]_(Chunks!vars) PROVE ChunkInv'
  OBVIOUS
<1>1. CASE Chunks!NextSection
  BY <1>1, ChunkNextSection
<1>2. CASE Chunks!WholeSection
  BY <1>2, ChunkWholeSection
<1>3. CASE Chunks!Begin
  BY <1>3, ChunkBegin
<1>4. CASE Chunks!Split
  BY <1>4, ChunkSplit
<1>5. CASE Chunks!Take
  BY <1>5, ChunkTake
<1>6. CASE Chunks!Emit
  BY <1>6, ChunkEmit
<1>7. CASE Chunks!TakeOverlap
  BY <1>7, ChunkTakeOverlap
<1>8. CASE Chunks!EmitLast
  BY <1>8, ChunkEmitLast
<1>9. CASE UNCHANGED Chunks!vars
  <2>1. /\ chunkDoc' = chunkDoc /\ chunkLimit' = chunkLimit /\ chunkKind' = chunkKind /\ chunkSection' = chunkSection
        /\ chunkPath' = chunkPath /\ chunkPc' = chunkPc /\ chunkUnits' = chunkUnits /\ chunkPos' = chunkPos
        /\ chunkCurrent' = chunkCurrent /\ chunkTail' = chunkTail /\ chunkList' = chunkList
    BY <1>9 DEF Chunks!vars
  <2>2. /\ chunkList' \in Seq(ChunkRecord')
        /\ ChunkOrdered'
        /\ (\A d \in 1..Len(chunkList) : ChunkGood(chunkList[d]))'
    BY <2>1, ChunkKept
  <2>3. Chunks!TypeOK'
    BY <2>1, <2>2 DEF ChunkInv, Chunks!TypeOK, ChunkRecord, Chunks!Run
  <2>4. ChunkSpans' /\ ChunkHandful'
    BY <2>1 DEF ChunkInv, ChunkSpans, ChunkHandful, ChunkPacking, ChunkHand, Chunks!Words, Chunks!None, Chunks!Overlap
  <2>5. ChunkReach'
    BY <2>1 DEF ChunkInv, ChunkReach, ChunkPacking, ChunkHand, ChunkCovered, ChunkLast
  <2>6. ChunkPlace'
    BY <2>1, ChunkSame
  <2> QED
    BY <2>2, <2>3, <2>4, <2>5, <2>6 DEF ChunkInv
<1> QED
  BY <1>1, <1>2, <1>3, <1>4, <1>5, <1>6, <1>7, <1>8, <1>9 DEF Chunks!Next

LEMMA ChunkHolds == ChunkInv => Chunks!ChunksHoldTheText
<1> SUFFICES ASSUME ChunkInv PROVE Chunks!ChunksHoldTheText
  OBVIOUS
<1>1. DOMAIN chunkList = 1..Len(chunkList)
  BY ChunkTypes DEF ChunkInv
<1>2. \A s \in 1..chunkSection : s < chunkSection \/ chunkPc = "section" =>
         \A w \in 1..chunkDoc[s].words :
             \E c \in DOMAIN chunkList : chunkList[c].section = s /\ w \in chunkList[c].first..chunkList[c].last
  BY DEF ChunkInv, ChunkReach, ChunkCovered
<1>3. \A c \in DOMAIN chunkList, d \in DOMAIN chunkList : d = c + 1 =>
         \/ chunkList[c].section < chunkList[d].section /\ chunkList[d].first = 1
         \/ /\ chunkList[c].section = chunkList[d].section
            /\ chunkList[c].first <= chunkList[d].first /\ chunkList[d].first <= chunkList[c].last + 1
            /\ chunkList[c].last < chunkList[d].last
  BY <1>1 DEF ChunkInv, ChunkOrdered, ChunkFollows
<1>4. \A c \in DOMAIN chunkList :
         /\ chunkList[c].tokens <= chunkLimit.size \/ chunkList[c].fresh = 1
         /\ chunkList[c].path = [k \in 1..chunkDoc[chunkList[c].section].level |-> Chunks!Above(chunkList[c].section, k)]
  BY <1>1 DEF ChunkInv, ChunkGood
<1>5. chunkPc = "repeat" => chunkCurrent.tokens <= Chunks!Overlap \/ chunkCurrent.from = chunkPos - 1
  BY DEF ChunkInv, ChunkHandful, ChunkHand
<1> QED
  BY <1>2, <1>3, <1>4, <1>5 DEF Chunks!ChunksHoldTheText

\* The chunks of a text hold all of it, in its order, under its headings and within the
\* limits, whatever its words count.
LEMMA ChunksAlwaysHoldTheText == Chunks!Spec => []Chunks!ChunksHoldTheText
<1>1. Chunks!Spec => []ChunkInv
  BY ChunkInit, ChunkNext, PTL DEF Chunks!Spec
<1> QED
  BY <1>1, ChunkHolds, PTL

-----------------------------------------------------------------------------
(***************************************************************************)
(* Work items in SQLite.                                                   *)
(*                                                                         *)
(* Anyone's commit copies what the connection sees to the disk, and        *)
(* anyone's rollback copies it back, so the rows are well formed in both   *)
(* copies.  What a task has fetched says what it can write.  Unless        *)
(* `broken', the open transaction belongs to the one task in the middle of *)
(* a checkout.  Steps are reduced to what they do to the connection: read, *)
(* write a row, open a transaction, end one.                               *)
(***************************************************************************)
USE DEF Sqlite!NoLease

\* What may be written into a row.
SqliteWritesWell(t) ==
    t.pc = "fetched" =>
        /\ t.kind = "checkout" => Sqlite!WellHeld(t.new)
        /\ t.kind = "end" => t.new.status # "checked_out"
        /\ t.kind = "lease" => t.new.lease # Sqlite!NoLease
        /\ t.kind = "status" => t.new.status # "checked_out"

SqliteTasksWellFormed == \A w \in SqliteWorkers : SqliteWritesWell(sqliteTask[w])

\* InCheckout of a task.
SqliteChecks(t) == t.pc = "begun" \/ (t.pc \in {"fetched", "written"} /\ t.kind = "checkout")

SqliteTakes(t) == t.pc = "fetched" /\ t.kind = "checkout"

SqliteExclusive ==
    ~sqliteBroken =>
        /\ \A w \in SqliteWorkers : SqliteChecks(sqliteTask[w]) => sqliteTx
        /\ \A v, w \in SqliteWorkers : SqliteChecks(sqliteTask[v]) /\ SqliteChecks(sqliteTask[w]) => v = w
        /\ \A w \in SqliteWorkers : SqliteTakes(sqliteTask[w]) => sqliteMem[sqliteTask[w].item].status # "checked_out"

SqliteIInv == Sqlite!TypeOK /\ Sqlite!HeldRowsWellFormed /\ SqliteTasksWellFormed /\ SqliteExclusive

-----------------------------------------------------------------------------
(* Rows and tasks.                                                         *)

\* An UPDATE of some columns leaves a row.
LEMMA SqliteWrittenRows ==
    ASSUME NEW kind \in Sqlite!Kinds, NEW current \in Sqlite!Row, NEW new \in Sqlite!Row
    PROVE  Sqlite!Columns(kind, current, new) \in Sqlite!Row
BY DEF Sqlite!Kinds, Sqlite!Columns, Sqlite!Row

\* An UPDATE leaves a row well held, and holds none that was not.
LEMMA SqliteWrittenWell ==
    ASSUME NEW kind \in Sqlite!Kinds, NEW current \in Sqlite!Row, NEW new \in Sqlite!Row, Sqlite!WellHeld(current),
           kind = "checkout" => Sqlite!WellHeld(new),
           kind = "end" => new.status # "checked_out",
           kind = "lease" => new.lease # Sqlite!NoLease,
           kind = "status" => new.status # "checked_out"
    PROVE  /\ Sqlite!WellHeld(Sqlite!Columns(kind, current, new))
           /\ kind # "checkout" /\ Sqlite!Columns(kind, current, new).status = "checked_out"
                => current.status = "checked_out"
BY DEF Sqlite!Kinds, Sqlite!Columns, Sqlite!Row, Sqlite!WellHeld

\* The pc of a task says what the rest of it is.
LEMMA SqliteTaskParts ==
    ASSUME NEW t \in Sqlite!Task
    PROVE  /\ t.pc \in {"idle", "begun", "fetched", "written", "rollback"}
           /\ t.pc = "idle" <=> t = Sqlite!Idle
           /\ t.pc = "begun" => t.item \in SqliteItems
           /\ t.pc = "fetched" => t.item \in SqliteItems /\ t.kind \in Sqlite!Kinds /\ t.new \in Sqlite!Row
           /\ t.pc = "written" => t.kind \in Sqlite!Kinds \cup {"other"}
BY DEF Sqlite!Task, Sqlite!Idle

-----------------------------------------------------------------------------
(* The steps, by what they do to the connection.                           *)

\* A step of w that leaves the connection alone.
SqliteReads(w, t) ==
    /\ t \in Sqlite!Task /\ Sqlite!Goto(w, t) /\ Sqlite!Unwritten
    /\ SqliteWritesWell(t)
    /\ SqliteChecks(t) => SqliteChecks(sqliteTask[w])
    /\ SqliteTakes(t) => sqliteMem[t.item].status # "checked_out"

\* A step of w that writes a row: it may hold one only within a checkout.
SqliteWritesRow(w, t, i, row) ==
    /\ t \in Sqlite!Task /\ Sqlite!Goto(w, t) /\ t.pc = "written" /\ Sqlite!Write(i, row)
    /\ row \in Sqlite!Row /\ Sqlite!WellHeld(row)
    /\ row.status = "checked_out" => sqliteMem[i].status = "checked_out" \/ SqliteChecks(sqliteTask[w])
    /\ SqliteChecks(t) => SqliteChecks(sqliteTask[w])

\* A step of w that opens a transaction without writing a row.
SqliteOpens(w, t) ==
    /\ t \in Sqlite!Task /\ Sqlite!Goto(w, t) /\ t.pc \in {"begun", "written"}
    /\ sqliteTx' = TRUE /\ UNCHANGED << sqliteDisk, sqliteMem, sqliteBroken >>
    /\ SqliteChecks(t) => ~sqliteTx

\* A step of w that ends the transaction, and with it its own checkout.
SqliteEnds(w, t) ==
    /\ t \in Sqlite!Task /\ Sqlite!Goto(w, t) /\ t.pc \in {"idle", "rollback"}
    /\ Sqlite!Commit(SqliteWorkers \ {w}) \/ Sqlite!Rollback(SqliteWorkers \ {w})

LEMMA SqliteFetching ==
    ASSUME SqliteDurations \subseteq Nat, SqliteMaxTime \in Nat, Sqlite!TypeOK, NEW w \in SqliteWorkers, Sqlite!FetchStep(w)
    PROVE  \/ \E t \in Sqlite!Task : SqliteReads(w, t)
           \/ \E t \in Sqlite!Task, i \in SqliteItems, row \in Sqlite!Row : SqliteWritesRow(w, t, i, row)
<1>1. PICK i \in SqliteItems :
        \/ \E status \in {"available", "review_pending"} : Sqlite!Create(w, i, status)
        \/ \E a \in SqliteActors, d \in SqliteDurations : Sqlite!RenewLease(w, i, a, d)
        \/ \E d \in SqliteDurations : Sqlite!UpdateProgress(w, i, d)
        \/ \E b \in BOOLEAN : Sqlite!Complete(w, i, b)
        \/ Sqlite!Release(w, i)
        \/ \E b \in BOOLEAN : Sqlite!Fail(w, i, b)
        \/ Sqlite!Accept(w, i)
        \/ Sqlite!Reject(w, i)
  BY DEF Sqlite!FetchStep
<1>2. sqliteMem[i] \in Sqlite!Row /\ sqliteNow \in Nat /\ {"lease", "end", "status"} \subseteq Sqlite!Kinds
  BY DEF Sqlite!TypeOK, Sqlite!Kinds
<1>3. ASSUME NEW kind \in {"lease", "end", "status"}, NEW new \in Sqlite!Row, Sqlite!Fetch(w, kind, i, new),
             kind = "lease" => new.lease # Sqlite!NoLease,
             kind \in {"end", "status"} => new.status # "checked_out"
      PROVE  \E t \in Sqlite!Task : SqliteReads(w, t)
  <2>1. Sqlite!Fetched(kind, i, new) \in Sqlite!Task /\ Sqlite!Fetched(kind, i, new).pc = "fetched"
        /\ Sqlite!Fetched(kind, i, new).kind = kind /\ Sqlite!Fetched(kind, i, new).new = new
    BY <1>2 DEF Sqlite!Task, Sqlite!Fetched
  <2>2. SqliteReads(w, Sqlite!Fetched(kind, i, new))
    BY <1>3, <2>1 DEF SqliteReads, Sqlite!Fetch, SqliteWritesWell, SqliteChecks, SqliteTakes
  <2> QED
    BY <2>1, <2>2
<1>4. ASSUME NEW status \in {"available", "review_pending"}, Sqlite!Create(w, i, status)
      PROVE  \E t \in Sqlite!Task, row \in Sqlite!Row : SqliteWritesRow(w, t, i, row)
  <2>1. Sqlite!Created(status) \in Sqlite!Row /\ Sqlite!Created(status).status # "checked_out"
    BY DEF Sqlite!Created, Sqlite!NoRow, Sqlite!Row, Sqlite!Status
  <2>2. Sqlite!Written("other") \in Sqlite!Task /\ Sqlite!Written("other").pc = "written" /\ Sqlite!Written("other").kind = "other"
    BY DEF Sqlite!Task, Sqlite!Written
  <2>3. SqliteWritesRow(w, Sqlite!Written("other"), i, Sqlite!Created(status))
    BY <1>4, <2>1, <2>2 DEF SqliteWritesRow, Sqlite!Create, Sqlite!WellHeld, SqliteChecks
  <2> QED
    BY <2>1, <2>2, <2>3
<1>5. ASSUME NEW d \in SqliteDurations PROVE Sqlite!Renewed(sqliteMem[i], sqliteNow + d) \in Sqlite!Row /\ Sqlite!Renewed(sqliteMem[i], sqliteNow + d).lease \in Nat
  <2>1. sqliteNow + d \in Nat
    BY <1>2
  <2> QED
    BY <1>2, <2>1 DEF Sqlite!Renewed, Sqlite!Row
<1>6. ASSUME NEW d \in SqliteDurations, NEW a \in SqliteActors, Sqlite!RenewLease(w, i, a, d) \/ Sqlite!UpdateProgress(w, i, d)
      PROVE  \E t \in Sqlite!Task : SqliteReads(w, t)
  <2>1. Sqlite!Fetch(w, "lease", i, Sqlite!Renewed(sqliteMem[i], sqliteNow + d))
    BY <1>6 DEF Sqlite!RenewLease, Sqlite!UpdateProgress
  <2> QED
    BY <1>3, <1>5, <2>1
<1>7. ASSUME NEW d \in SqliteDurations, Sqlite!UpdateProgress(w, i, d)
      PROVE  \E t \in Sqlite!Task : SqliteReads(w, t)
  <2>1. Sqlite!Fetch(w, "lease", i, Sqlite!Renewed(sqliteMem[i], sqliteNow + d))
    BY <1>7 DEF Sqlite!UpdateProgress
  <2> QED
    BY <1>3, <1>5, <2>1
<1>8. ASSUME NEW b \in BOOLEAN, Sqlite!Complete(w, i, b) PROVE \E t \in Sqlite!Task : SqliteReads(w, t)
  <2>1. Sqlite!Completed(b) \in Sqlite!Row /\ Sqlite!Completed(b).status # "checked_out"
    BY DEF Sqlite!Completed, Sqlite!Ended, Sqlite!Row, Sqlite!Status
  <2> QED
    BY <1>3, <1>8, <2>1 DEF Sqlite!Complete
<1>9. ASSUME NEW b \in BOOLEAN, Sqlite!Fail(w, i, b) PROVE \E t \in Sqlite!Task : SqliteReads(w, t)
  <2>1. Sqlite!Failed(b) \in Sqlite!Row /\ Sqlite!Failed(b).status # "checked_out"
    BY DEF Sqlite!Failed, Sqlite!Ended, Sqlite!Row, Sqlite!Status
  <2> QED
    BY <1>3, <1>9, <2>1 DEF Sqlite!Fail
<1>10. CASE Sqlite!Release(w, i)
  <2>1. Sqlite!Released \in Sqlite!Row /\ Sqlite!Released.status # "checked_out"
    BY DEF Sqlite!Released, Sqlite!Ended, Sqlite!Row, Sqlite!Status
  <2> QED
    BY <1>3, <1>10, <2>1 DEF Sqlite!Release
<1>11. CASE Sqlite!Accept(w, i) \/ Sqlite!Reject(w, i)
  <2>1. /\ Sqlite!Accepted(sqliteMem[i]) \in Sqlite!Row /\ Sqlite!Accepted(sqliteMem[i]).status # "checked_out"
        /\ Sqlite!Rejected(sqliteMem[i]) \in Sqlite!Row /\ Sqlite!Rejected(sqliteMem[i]).status # "checked_out"
    BY <1>2 DEF Sqlite!Accepted, Sqlite!Rejected, Sqlite!Row, Sqlite!Status
  <2> QED
    BY <1>3, <1>11, <2>1 DEF Sqlite!Accept, Sqlite!Reject
<1> QED
  BY <1>1, <1>4, <1>6, <1>7, <1>8, <1>9, <1>10, <1>11

LEMMA SqliteWorking ==
    ASSUME SqliteDurations \subseteq Nat, SqliteMaxTime \in Nat, SqliteIInv, NEW w \in SqliteWorkers, Sqlite!WorkerStep(w)
    PROVE  \E t \in Sqlite!Task :
             \/ SqliteReads(w, t)
             \/ \E i \in SqliteItems, row \in Sqlite!Row : SqliteWritesRow(w, t, i, row)
             \/ SqliteOpens(w, t)
             \/ SqliteEnds(w, t)
<1> DEFINE Goal == \E t \in Sqlite!Task :
             \/ SqliteReads(w, t)
             \/ \E i \in SqliteItems, row \in Sqlite!Row : SqliteWritesRow(w, t, i, row)
             \/ SqliteOpens(w, t)
             \/ SqliteEnds(w, t)
<1>0. sqliteTask[w] \in Sqlite!Task /\ sqliteNow \in Nat /\ sqliteMem \in [SqliteItems -> Sqlite!Row] /\ SqliteWritesWell(sqliteTask[w])
  BY DEF SqliteIInv, Sqlite!TypeOK, SqliteTasksWellFormed
<1>1. CASE Sqlite!FetchStep(w)
  BY <1>1, SqliteFetching DEF SqliteIInv
<1>2. ASSUME NEW i \in SqliteItems, Sqlite!Begin(w, i) PROVE Goal
  <2>1. Sqlite!Begun(i) \in Sqlite!Task /\ Sqlite!Begun(i).pc = "begun"
    BY DEF Sqlite!Task, Sqlite!Begun
  <2>2. SqliteOpens(w, Sqlite!Begun(i))
    BY <1>2, <2>1 DEF Sqlite!Begin, SqliteOpens
  <2> QED
    BY <2>1, <2>2
<1>3. ASSUME NEW a \in SqliteActors, NEW d \in SqliteDurations, Sqlite!CheckoutFetch(w, a, d) PROVE Goal
  <2> DEFINE i == sqliteTask[w].item
             new == Sqlite!CheckedOut(a, sqliteNow + d)
  <2>1. i \in SqliteItems /\ sqliteTask[w].pc = "begun" /\ sqliteMem[i].status = "available"
    BY <1>0, <1>3, SqliteTaskParts DEF Sqlite!CheckoutFetch
  <2>2. sqliteNow + d \in Nat
    BY <1>0
  <2>3. new \in Sqlite!Row /\ Sqlite!WellHeld(new)
    BY <2>2, SqliteAssumption DEF Sqlite!CheckedOut, Sqlite!Row, Sqlite!Status, Sqlite!WellHeld
  <2> HIDE DEF new
  <2>4. /\ Sqlite!Fetched("checkout", i, new) \in Sqlite!Task /\ Sqlite!Fetched("checkout", i, new).pc = "fetched"
        /\ Sqlite!Fetched("checkout", i, new).kind = "checkout" /\ Sqlite!Fetched("checkout", i, new).item = i
        /\ Sqlite!Fetched("checkout", i, new).new = new
    BY <2>1, <2>3 DEF Sqlite!Task, Sqlite!Fetched, Sqlite!Kinds
  <2>5. Sqlite!Goto(w, Sqlite!Fetched("checkout", i, new)) /\ Sqlite!Unwritten
    BY <1>3 DEF Sqlite!CheckoutFetch, new
  <2>6. SqliteReads(w, Sqlite!Fetched("checkout", i, new))
    BY <2>1, <2>3, <2>4, <2>5 DEF SqliteReads, SqliteWritesWell, SqliteChecks, SqliteTakes
  <2> QED
    BY <2>4, <2>6
<1>4. CASE Sqlite!CheckoutRefused(w) \/ Sqlite!CheckoutRaises(w)
  <2>1. PICK n \in 1..2 : Sqlite!Goto(w, Sqlite!RollingBack(n)) /\ Sqlite!Unwritten
    BY <1>4 DEF Sqlite!CheckoutRefused, Sqlite!CheckoutRaises
  <2>2. Sqlite!RollingBack(n) \in Sqlite!Task /\ Sqlite!RollingBack(n).pc = "rollback"
    BY DEF Sqlite!Task, Sqlite!RollingBack
  <2>3. SqliteReads(w, Sqlite!RollingBack(n))
    BY <2>1, <2>2 DEF SqliteReads, SqliteWritesWell, SqliteChecks, SqliteTakes
  <2> QED
    BY <2>2, <2>3
<1>5. CASE Sqlite!CheckoutRollback(w)
  <2>1. PICK t \in {Sqlite!RollingBack(1), Sqlite!Idle} : Sqlite!Goto(w, t) /\ Sqlite!Rollback(SqliteWorkers \ {w})
    BY <1>5 DEF Sqlite!CheckoutRollback
  <2>2. t \in Sqlite!Task /\ t.pc \in {"idle", "rollback"}
    BY DEF Sqlite!Task, Sqlite!RollingBack, Sqlite!Idle
  <2> QED
    BY <2>1, <2>2 DEF SqliteEnds
<1>6. CASE Sqlite!OtherStore(w)
  <2>1. Sqlite!Written("other") \in Sqlite!Task /\ Sqlite!Written("other").pc = "written" /\ Sqlite!Written("other").kind = "other"
    BY DEF Sqlite!Task, Sqlite!Written
  <2>2. SqliteOpens(w, Sqlite!Written("other"))
    BY <1>6, <2>1 DEF Sqlite!OtherStore, SqliteOpens, SqliteChecks
  <2> QED
    BY <2>1, <2>2
<1>7. CASE Sqlite!Update(w)
  <2> DEFINE i == sqliteTask[w].item
             kind == sqliteTask[w].kind
             row == IF sqliteMem[i] = Sqlite!NoRow THEN Sqlite!NoRow ELSE Sqlite!Columns(kind, sqliteMem[i], sqliteTask[w].new)
  <2>1. /\ sqliteTask[w].pc = "fetched" /\ i \in SqliteItems /\ kind \in Sqlite!Kinds /\ sqliteTask[w].new \in Sqlite!Row
        /\ Sqlite!Write(i, row) /\ Sqlite!Goto(w, Sqlite!Written(kind))
    BY <1>0, <1>7, SqliteTaskParts DEF Sqlite!Update
  <2>2. sqliteMem[i] \in Sqlite!Row /\ Sqlite!WellHeld(sqliteMem[i])
    BY <1>0, <2>1 DEF SqliteIInv, Sqlite!HeldRowsWellFormed
  <2>3. Sqlite!NoRow \in Sqlite!Row /\ Sqlite!NoRow.status # "checked_out"
    BY DEF Sqlite!NoRow, Sqlite!Row
  <2>4. /\ Sqlite!Columns(kind, sqliteMem[i], sqliteTask[w].new) \in Sqlite!Row
        /\ Sqlite!WellHeld(Sqlite!Columns(kind, sqliteMem[i], sqliteTask[w].new))
        /\ kind # "checkout" /\ Sqlite!Columns(kind, sqliteMem[i], sqliteTask[w].new).status = "checked_out"
             => sqliteMem[i].status = "checked_out"
    BY <1>0, <2>1, <2>2, SqliteWrittenRows, SqliteWrittenWell DEF SqliteWritesWell
  <2>5. row \in Sqlite!Row /\ Sqlite!WellHeld(row) /\ (kind # "checkout" /\ row.status = "checked_out" => sqliteMem[i].status = "checked_out")
    BY <2>3, <2>4 DEF Sqlite!WellHeld
  <2>6. Sqlite!Written(kind) \in Sqlite!Task /\ Sqlite!Written(kind).pc = "written" /\ Sqlite!Written(kind).kind = kind
    BY <2>1 DEF Sqlite!Task, Sqlite!Written
  <2> HIDE DEF row
  <2>7. SqliteWritesRow(w, Sqlite!Written(kind), i, row)
    BY <2>1, <2>5, <2>6 DEF SqliteWritesRow, SqliteChecks
  <2> QED
    BY <2>1, <2>5, <2>6, <2>7
<1>8. CASE Sqlite!CommitWork(w)
  <2>1. Sqlite!Idle \in Sqlite!Task /\ Sqlite!Idle.pc = "idle"
    BY DEF Sqlite!Task, Sqlite!Idle
  <2>2. SqliteEnds(w, Sqlite!Idle)
    BY <1>8, <2>1 DEF Sqlite!CommitWork, SqliteEnds
  <2> QED
    BY <2>1, <2>2
<1>9. CASE Sqlite!Cancel(w)
  <2>1. Sqlite!Idle \in Sqlite!Task /\ Sqlite!Idle.pc = "idle"
    BY DEF Sqlite!Task, Sqlite!Idle
  <2>2. SqliteReads(w, Sqlite!Idle)
    BY <1>9, <2>1 DEF Sqlite!Cancel, SqliteReads, SqliteWritesWell, SqliteChecks, SqliteTakes
  <2> QED
    BY <2>1, <2>2
<1> QED
  BY <1>1, <1>2, <1>3, <1>4, <1>5, <1>6, <1>7, <1>8, <1>9 DEF Sqlite!WorkerStep, Sqlite!CheckoutStep

LEMMA SqliteWorkersLeaveTheRest ==
    ASSUME NEW w \in SqliteWorkers, Sqlite!WorkerStep(w)
    PROVE  Sqlite!Elsewhere
BY DEF Sqlite!WorkerStep, Sqlite!CheckoutStep, Sqlite!FetchStep, Sqlite!Begin, Sqlite!CheckoutFetch, Sqlite!CheckoutRefused, Sqlite!CheckoutRaises,
       Sqlite!CheckoutRollback, Sqlite!Create, Sqlite!Fetch, Sqlite!RenewLease, Sqlite!UpdateProgress, Sqlite!Complete, Sqlite!Release, Sqlite!Fail, Sqlite!Accept,
       Sqlite!Reject, Sqlite!OtherStore, Sqlite!Update, Sqlite!CommitWork, Sqlite!Cancel

-----------------------------------------------------------------------------
(* The invariant is inductive.                                             *)

LEMMA SqliteWorkKeeps ==
    ASSUME SqliteIInv, NEW w \in SqliteWorkers, NEW t \in Sqlite!Task, Sqlite!Elsewhere,
           \/ SqliteReads(w, t)
           \/ \E i \in SqliteItems, row \in Sqlite!Row : SqliteWritesRow(w, t, i, row)
           \/ SqliteOpens(w, t)
           \/ SqliteEnds(w, t)
    PROVE  SqliteIInv'
<1>1. /\ sqliteTask' \in [SqliteWorkers -> Sqlite!Task] /\ sqliteTask'[w] = t
      /\ \A v \in SqliteWorkers : v # w => sqliteTask'[v] = sqliteTask[v]
  BY DEF SqliteIInv, Sqlite!TypeOK, SqliteReads, SqliteWritesRow, SqliteOpens, SqliteEnds, Sqlite!Goto
<1>2. sqliteSweep' = sqliteSweep /\ sqliteNow' = sqliteNow
  BY DEF Sqlite!Elsewhere
<1>3. Sqlite!InCheckout(w) <=> SqliteChecks(sqliteTask[w])
  BY DEF Sqlite!InCheckout, SqliteChecks
<1>4. CASE SqliteReads(w, t)
  <2>1. UNCHANGED << sqliteDisk, sqliteMem, sqliteTx, sqliteBroken >>
    BY <1>4 DEF SqliteReads, Sqlite!Unwritten
  <2>2. Sqlite!TypeOK' /\ Sqlite!HeldRowsWellFormed'
    BY <1>1, <1>2, <2>1 DEF SqliteIInv, Sqlite!TypeOK, Sqlite!HeldRowsWellFormed
  <2>3. SqliteTasksWellFormed'
    BY <1>1, <1>4 DEF SqliteIInv, SqliteTasksWellFormed, SqliteReads
  <2>4. SqliteExclusive'
    BY <1>1, <1>4, <2>1 DEF SqliteIInv, SqliteExclusive, SqliteReads
  <2> QED
    BY <2>2, <2>3, <2>4 DEF SqliteIInv
<1>5. ASSUME NEW i \in SqliteItems, NEW row \in Sqlite!Row, SqliteWritesRow(w, t, i, row) PROVE SqliteIInv'
  <2>1. /\ sqliteMem' \in [SqliteItems -> Sqlite!Row] /\ sqliteMem'[i] = row /\ \A j \in SqliteItems : j # i => sqliteMem'[j] = sqliteMem[j]
        /\ sqliteTx' = TRUE /\ UNCHANGED << sqliteDisk, sqliteBroken >>
    BY <1>5 DEF SqliteWritesRow, Sqlite!Write, SqliteIInv, Sqlite!TypeOK
  <2>2. Sqlite!TypeOK' /\ Sqlite!HeldRowsWellFormed'
    BY <1>1, <1>2, <1>5, <2>1 DEF SqliteIInv, Sqlite!TypeOK, Sqlite!HeldRowsWellFormed, SqliteWritesRow
  <2>3. SqliteTasksWellFormed'
    BY <1>1, <1>5 DEF SqliteIInv, SqliteTasksWellFormed, SqliteWritesRow, SqliteWritesWell
  <2>4. ASSUME ~sqliteBroken', NEW v \in SqliteWorkers, SqliteTakes(sqliteTask'[v])
        PROVE  sqliteMem'[sqliteTask'[v].item].status # "checked_out"
    <3>1. v # w /\ sqliteTask'[v] = sqliteTask[v] /\ sqliteTask[v] \in Sqlite!Task
      BY <1>1, <1>5, <2>4 DEF SqliteWritesRow, SqliteTakes, SqliteIInv, Sqlite!TypeOK
    <3>2. /\ sqliteTask[v].item \in SqliteItems /\ sqliteMem[sqliteTask[v].item].status # "checked_out"
          /\ SqliteChecks(sqliteTask[v]) /\ ~SqliteChecks(sqliteTask[w])
      BY <2>1, <2>4, <3>1, SqliteTaskParts DEF SqliteIInv, SqliteExclusive, SqliteTakes, SqliteChecks
    <3> QED
      BY <1>5, <2>1, <3>1, <3>2 DEF SqliteWritesRow
  <2>5. SqliteExclusive'
    BY <1>1, <1>5, <2>1, <2>4 DEF SqliteIInv, SqliteExclusive, SqliteWritesRow
  <2> QED
    BY <2>2, <2>3, <2>5 DEF SqliteIInv
<1>6. CASE SqliteOpens(w, t)
  <2>1. UNCHANGED << sqliteDisk, sqliteMem, sqliteBroken >> /\ sqliteTx' = TRUE
    BY <1>6 DEF SqliteOpens
  <2>2. Sqlite!TypeOK' /\ Sqlite!HeldRowsWellFormed'
    BY <1>1, <1>2, <2>1 DEF SqliteIInv, Sqlite!TypeOK, Sqlite!HeldRowsWellFormed
  <2>3. SqliteTasksWellFormed'
    BY <1>1, <1>6 DEF SqliteIInv, SqliteTasksWellFormed, SqliteOpens, SqliteWritesWell
  <2>4. SqliteExclusive'
    BY <1>1, <1>6, <2>1 DEF SqliteIInv, SqliteExclusive, SqliteOpens, SqliteTakes
  <2> QED
    BY <2>2, <2>3, <2>4 DEF SqliteIInv
<1>7. CASE SqliteEnds(w, t)
  <2>1. /\ sqliteMem' \in {sqliteMem, sqliteDisk} /\ sqliteDisk' \in {sqliteMem, sqliteDisk} /\ sqliteTx' = FALSE
        /\ sqliteBroken' = (sqliteBroken \/ \E v \in SqliteWorkers \ {w} : Sqlite!InCheckout(v))
    BY <1>7 DEF SqliteEnds, Sqlite!Commit, Sqlite!Rollback, Sqlite!EndTx
  <2>2. sqliteBroken' \in BOOLEAN
    BY <2>1 DEF SqliteIInv, Sqlite!TypeOK
  <2>3. Sqlite!TypeOK' /\ Sqlite!HeldRowsWellFormed'
    BY <1>1, <1>2, <2>1, <2>2 DEF SqliteIInv, Sqlite!TypeOK, Sqlite!HeldRowsWellFormed
  <2>4. SqliteTasksWellFormed'
    BY <1>1, <1>7 DEF SqliteIInv, SqliteTasksWellFormed, SqliteEnds, SqliteWritesWell
  <2>5. ~sqliteBroken' => \A v \in SqliteWorkers : ~SqliteChecks(sqliteTask'[v])
    BY <1>1, <1>7, <2>1 DEF SqliteEnds, Sqlite!InCheckout, SqliteChecks
  <2>6. SqliteExclusive'
    BY <2>5 DEF SqliteExclusive, SqliteChecks, SqliteTakes
  <2> QED
    BY <2>3, <2>4, <2>6 DEF SqliteIInv
<1> QED
  BY <1>4, <1>5, <1>6, <1>7

LEMMA SqliteInitially ==
    ASSUME SqliteMaxTime \in Nat, Sqlite!Init
    PROVE  SqliteIInv
<1>1. Sqlite!NoRow \in Sqlite!Row /\ Sqlite!NoRow.status # "checked_out" /\ Sqlite!Idle \in Sqlite!Task /\ Sqlite!Idle.pc = "idle"
  BY DEF Sqlite!NoRow, Sqlite!Row, Sqlite!Task, Sqlite!Idle
<1>2. Sqlite!TypeOK
  <2>1. sqliteNow \in 0..SqliteMaxTime /\ sqliteSweep \in [pc : {"idle", "sweep"}, todo : SUBSET SqliteItems]
    BY DEF Sqlite!Init, Sqlite!SweepIdle
  <2> QED
    BY <1>1, <2>1 DEF Sqlite!Init, Sqlite!TypeOK
<1>3. Sqlite!HeldRowsWellFormed
  BY <1>1 DEF Sqlite!Init, Sqlite!HeldRowsWellFormed, Sqlite!WellHeld
<1>4. SqliteTasksWellFormed /\ SqliteExclusive
  BY <1>1 DEF Sqlite!Init, SqliteTasksWellFormed, SqliteWritesWell, SqliteExclusive, SqliteChecks, SqliteTakes
<1> QED
  BY <1>2, <1>3, <1>4 DEF SqliteIInv

LEMMA SqliteIInvKept ==
    ASSUME SqliteDurations \subseteq Nat, SqliteMaxTime \in Nat, SqliteIInv, [Sqlite!Next]_(Sqlite!vars)
    PROVE  SqliteIInv'
<1>1. ASSUME NEW w \in SqliteWorkers, Sqlite!WorkerStep(w) PROVE SqliteIInv'
  BY <1>1, SqliteWorking, SqliteWorkKeeps, SqliteWorkersLeaveTheRest
<1>2. CASE Sqlite!SweepSelect \/ Sqlite!SweepRaises \/ Sqlite!Tick \/ UNCHANGED Sqlite!vars
  <2>1. UNCHANGED << sqliteDisk, sqliteMem, sqliteTx, sqliteBroken, sqliteTask >>
    BY <1>2 DEF Sqlite!SweepSelect, Sqlite!SweepRaises, Sqlite!Tick, Sqlite!Unwritten, Sqlite!vars
  <2>2. sqliteSweep' \in [pc : {"idle", "sweep"}, todo : SUBSET SqliteItems] /\ sqliteNow' \in 0..SqliteMaxTime
    BY <1>2 DEF Sqlite!SweepSelect, Sqlite!SweepRaises, Sqlite!Tick, Sqlite!Sweeping, Sqlite!SweepIdle, Sqlite!vars, SqliteIInv, Sqlite!TypeOK
  <2> QED
    BY <2>1, <2>2 DEF SqliteIInv, Sqlite!TypeOK, Sqlite!HeldRowsWellFormed, SqliteTasksWellFormed, SqliteExclusive
<1>3. CASE Sqlite!SweepUpdate
  <2>1. PICK i \in sqliteSweep.todo : /\ Sqlite!Write(i, IF sqliteMem[i] = Sqlite!NoRow THEN Sqlite!NoRow ELSE Sqlite!ExpiredRow)
                                /\ sqliteSweep' = Sqlite!Sweeping(sqliteSweep.todo \ {i}) /\ UNCHANGED << sqliteTask, sqliteNow >>
    BY <1>3 DEF Sqlite!SweepUpdate
  <2> DEFINE row == IF sqliteMem[i] = Sqlite!NoRow THEN Sqlite!NoRow ELSE Sqlite!ExpiredRow
  <2>2. row \in Sqlite!Row /\ row.status # "checked_out" /\ i \in SqliteItems
    BY <2>1 DEF Sqlite!NoRow, Sqlite!ExpiredRow, Sqlite!Ended, Sqlite!Row, Sqlite!Status, SqliteIInv, Sqlite!TypeOK
  <2>3. Sqlite!Write(i, row)
    BY <2>1
  <2> HIDE DEF row
  <2>4. /\ sqliteMem' \in [SqliteItems -> Sqlite!Row] /\ sqliteMem'[i] = row /\ \A j \in SqliteItems : j # i => sqliteMem'[j] = sqliteMem[j]
        /\ sqliteTx' = TRUE /\ UNCHANGED << sqliteDisk, sqliteBroken >>
    BY <2>2, <2>3 DEF Sqlite!Write, SqliteIInv, Sqlite!TypeOK
  <2>5. sqliteSweep' \in [pc : {"idle", "sweep"}, todo : SUBSET SqliteItems]
    BY <2>1 DEF Sqlite!Sweeping, SqliteIInv, Sqlite!TypeOK
  <2>6. Sqlite!TypeOK' /\ SqliteTasksWellFormed'
    BY <2>1, <2>4, <2>5 DEF SqliteIInv, Sqlite!TypeOK, SqliteTasksWellFormed
  <2>7. Sqlite!HeldRowsWellFormed'
    BY <2>2, <2>4 DEF SqliteIInv, Sqlite!HeldRowsWellFormed, Sqlite!WellHeld
  <2>8. \A w \in SqliteWorkers : SqliteTakes(sqliteTask[w]) => sqliteTask[w].item \in SqliteItems
    BY SqliteTaskParts DEF SqliteIInv, Sqlite!TypeOK, SqliteTakes
  <2>9. SqliteExclusive'
    BY <2>1, <2>2, <2>4, <2>8 DEF SqliteIInv, SqliteExclusive
  <2> QED
    BY <2>6, <2>7, <2>9 DEF SqliteIInv
<1>4. CASE Sqlite!SweepCommit
  <2>1. /\ sqliteMem' = sqliteMem /\ sqliteDisk' = sqliteMem /\ sqliteTx' = FALSE
        /\ sqliteBroken' = (sqliteBroken \/ \E v \in SqliteWorkers : Sqlite!InCheckout(v)) /\ UNCHANGED << sqliteTask, sqliteNow >>
        /\ sqliteSweep' = Sqlite!SweepIdle
    BY <1>4 DEF Sqlite!SweepCommit, Sqlite!Commit, Sqlite!EndTx
  <2>2. sqliteBroken' \in BOOLEAN /\ sqliteSweep' \in [pc : {"idle", "sweep"}, todo : SUBSET SqliteItems]
    BY <2>1 DEF SqliteIInv, Sqlite!TypeOK, Sqlite!SweepIdle
  <2>3. Sqlite!TypeOK' /\ Sqlite!HeldRowsWellFormed' /\ SqliteTasksWellFormed'
    BY <2>1, <2>2 DEF SqliteIInv, Sqlite!TypeOK, Sqlite!HeldRowsWellFormed, SqliteTasksWellFormed
  <2>4. ~sqliteBroken' => \A v \in SqliteWorkers : ~SqliteChecks(sqliteTask'[v])
    BY <2>1 DEF Sqlite!InCheckout, SqliteChecks
  <2>5. SqliteExclusive'
    BY <2>4 DEF SqliteExclusive, SqliteChecks, SqliteTakes
  <2> QED
    BY <2>3, <2>5 DEF SqliteIInv
<1>5. CASE Sqlite!Restart
  <2>1. \A w \in SqliteWorkers : sqliteTask'[w] = Sqlite!Idle /\ Sqlite!Idle \in Sqlite!Task /\ Sqlite!Idle.pc = "idle"
    BY <1>5 DEF Sqlite!Restart, Sqlite!Task, Sqlite!Idle
  <2>2. Sqlite!TypeOK'
    BY <1>5, <2>1 DEF Sqlite!Restart, SqliteIInv, Sqlite!TypeOK, Sqlite!SweepIdle
  <2>3. Sqlite!HeldRowsWellFormed'
    BY <1>5 DEF Sqlite!Restart, SqliteIInv, Sqlite!HeldRowsWellFormed
  <2>4. SqliteTasksWellFormed' /\ SqliteExclusive'
    BY <2>1 DEF SqliteTasksWellFormed, SqliteWritesWell, SqliteExclusive, SqliteChecks, SqliteTakes
  <2> QED
    BY <2>2, <2>3, <2>4 DEF SqliteIInv
<1> QED
  BY <1>1, <1>2, <1>3, <1>4, <1>5 DEF Sqlite!Next, Sqlite!SweepStep

LEMMA SqliteInvariance ==
    ASSUME SqliteDurations \subseteq Nat, SqliteMaxTime \in Nat
    PROVE  Sqlite!Spec => []SqliteIInv
<1>1. Sqlite!Init => SqliteIInv
  BY SqliteInitially
<1>2. SqliteIInv /\ [Sqlite!Next]_(Sqlite!vars) => SqliteIInv'
  BY SqliteIInvKept
<1> QED
  BY <1>1, <1>2, PTL DEF Sqlite!Spec

-----------------------------------------------------------------------------
(* What follows from it.  Lease durations and the clock are naturals.      *)

\* The rows, tasks and the sweep of the SQLite store keep their types, whoever's writes a
\* commit or rollback takes in.
THEOREM SqliteTypeCorrect ==
    ASSUME SqliteDurations \subseteq Nat, SqliteMaxTime \in Nat
    PROVE  Sqlite!Spec => []Sqlite!TypeOK
<1>1. SqliteIInv => Sqlite!TypeOK
  BY DEF SqliteIInv
<1> QED
  BY <1>1, SqliteInvariance, PTL

\* No mixture of statements, commits and rollbacks of the store's coroutines leaves a row
\* that is checked out but has no holder or no lease to expire, committed or not.
THEOREM SqliteHeldRowsStayWellFormed ==
    ASSUME SqliteDurations \subseteq Nat, SqliteMaxTime \in Nat
    PROVE  Sqlite!Spec => []Sqlite!HeldRowsWellFormed
<1>1. SqliteIInv => Sqlite!HeldRowsWellFormed
  BY DEF SqliteIInv
<1> QED
  BY <1>1, SqliteInvariance, PTL

\* As long as nobody has ended another's checkout, BEGIN IMMEDIATE does what the code
\* wants of it: the item a checkout is about to take is free.
THEOREM SqliteCheckoutsAreAtomicAlone ==
    ASSUME SqliteDurations \subseteq Nat, SqliteMaxTime \in Nat
    PROVE  Sqlite!Spec => []Sqlite!CheckoutIsAtomicAlone
<1>1. SqliteIInv => Sqlite!CheckoutIsAtomicAlone
  BY DEF SqliteIInv, SqliteExclusive, Sqlite!CheckoutIsAtomicAlone, SqliteTakes
<1> QED
  BY <1>1, SqliteInvariance, PTL

-----------------------------------------------------------------------------
(* Types: what the invariants leave out of TypeOK.                         *)

HistoryCounted == historyCalls \in 0..HistoryMaxCalls
LEMMA HistoryCallsBounded ==
    HistoryCounted /\ [History!Next]_(History!vars) => HistoryCounted'
<1> SUFFICES ASSUME HistoryCounted, [History!Next]_(History!vars)
             PROVE  HistoryCounted'
  OBVIOUS
<1>1. UNCHANGED historyCalls \/ History!Begin
  BY DEF History!Next, History!vars, History!Load, History!Loaded, History!Save, History!PersistQuestion, History!Fail, History!Create,
         History!Delete, History!BeginFork, History!CreateFork, History!BeginRevert, History!SaveFork, History!SaveRevert,
         History!Restart
<1> QED
  BY <1>1, HistoryAssumption DEF HistoryCounted, History!Begin

LEMMA HistoryTypeCorrect == History!Spec => []History!TypeOK
<1>1. History!Init => HistoryCounted
  BY HistoryAssumption DEF HistoryCounted, History!Init
<1>2. HistoryInv /\ HistoryCounted => History!TypeOK
  BY DEF HistoryCounted, HistoryInv, HistoryTyped, History!TypeOK
<1> QED
  BY <1>1, <1>2, HistoryInit, HistoryNext, HistoryCallsBounded, PTL DEF History!Spec

RecoveryKnown == recoveryHolder \in Recovery!Requests \cup {Recovery!None} /\ recoveryTraces \subseteq Recovery!Requests

LEMMA RecoveryKnownStays == RecoveryKnown /\ [Recovery!Next]_(Recovery!vars) => RecoveryKnown'
BY DEF RecoveryKnown, Recovery!Next, Recovery!vars, Recovery!Progress, Recovery!Release, Recovery!Arrive, Recovery!Recover,
       Recovery!RecoverKept, Recovery!RecoverRaises, Recovery!EndTurn, Recovery!FailStream, Recovery!Abandon,
       Recovery!SaveTrace, Recovery!SaveSession, Recovery!SaveRaises, Recovery!WriteCheckpoint, Recovery!DropTraces,
       Recovery!DeleteSession, Recovery!Restart

LEMMA RecoveryTypeCorrect == Recovery!Spec => []Recovery!TypeOK
<1>1. Recovery!Init => RecoveryKnown
  BY DEF Recovery!Init, RecoveryKnown
<1>2. RecoveryInv /\ RecoveryKnown => Recovery!TypeOK
  BY DEF RecoveryInv, RecoveryTyped, RecoveryKnown, Recovery!TypeOK
<1> QED
  BY <1>1, <1>2, RecoveryInit, RecoveryNext, RecoveryKnownStays, PTL DEF Recovery!Spec

AccountCounted == accountCalls \in 0..AccountMaxCalls
LEMMA AccountCallsBounded ==
    AccountCounted /\ [Accounts!Next]_(Accounts!vars) => AccountCounted'
<1> SUFFICES ASSUME AccountCounted, [Accounts!Next]_(Accounts!vars)
             PROVE  AccountCounted'
  OBVIOUS
<1>1. UNCHANGED accountCalls \/ Accounts!Call
  BY DEF Accounts!Next, Accounts!vars, Accounts!Arrive, Accounts!StartTurn, Accounts!Fail, Accounts!EndTurn, Accounts!Save,
         Accounts!Record, Accounts!RecordFails, Accounts!Tally, Accounts!ReadCost, Accounts!Bill, Accounts!DeleteSession,
         Accounts!Restart
<1> QED
  BY <1>1, AccountAssumption DEF AccountCounted, Accounts!Call

LEMMA AccountTypeCorrect == Accounts!Spec => []Accounts!TypeOK
<1>1. Accounts!Init => AccountCounted
  BY AccountAssumption DEF AccountCounted, Accounts!Init
<1>2. AccountInv /\ AccountCounted => Accounts!TypeOK
  BY DEF AccountCounted, AccountInv, AccountTyped, Accounts!TypeOK
<1> QED
  BY <1>1, <1>2, AccountInit, AccountNext, AccountCallsBounded, PTL DEF Accounts!Spec

LEMMA ChunkTypeCorrect == Chunks!Spec => []Chunks!TypeOK
<1>1. ChunkInv => Chunks!TypeOK
  BY DEF ChunkInv
<1> QED
  BY <1>1, ChunkInit, ChunkNext, PTL DEF Chunks!Spec
=============================================================================
