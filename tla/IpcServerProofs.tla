--------------------------- MODULE IpcServerProofs ---------------------------
(***************************************************************************)
(* The table of handles is right after every step of every client, and a   *)
(* connection finds room in it: for any number of sessions and any limit.  *)
(***************************************************************************)
EXTENDS IpcServer, SequenceTheorems, FiniteSetTheorems, TLAPS

-----------------------------------------------------------------------------
(* What the three changes of a table or a queue do to what is in it.       *)

LEMMA AppendRange ==
    ASSUME NEW S, NEW s \in Seq(S), NEW x \in S, IsInjective(s), x \notin Range(s)
    PROVE  /\ Append(s, x) \in Seq(S)
           /\ Range(Append(s, x)) = Range(s) \cup {x}
           /\ IsInjective(Append(s, x))
<1>1. /\ Append(s, x) \in Seq(S) /\ DOMAIN Append(s, x) = 1..(Len(s) + 1)
      /\ \A i \in 1..Len(s) : Append(s, x)[i] = s[i]
      /\ Append(s, x)[Len(s) + 1] = x
      /\ DOMAIN s = 1..Len(s) /\ Len(s) \in Nat
  OBVIOUS
<1>2. QED
  BY <1>1 DEF Range, IsInjective

LEMMA TailRange ==
    ASSUME NEW S, NEW s \in Seq(S), IsInjective(s), s # <<>>
    PROVE  /\ Tail(s) \in Seq(S) /\ Head(s) \in S /\ Head(s) \in Range(s)
           /\ Range(Tail(s)) = Range(s) \ {Head(s)}
           /\ IsInjective(Tail(s))
<1>1. /\ Tail(s) \in Seq(S) /\ DOMAIN Tail(s) = 1..(Len(s) - 1)
      /\ \A i \in 1..(Len(s) - 1) : Tail(s)[i] = s[i + 1]
      /\ Head(s) = s[1]
      /\ DOMAIN s = 1..Len(s) /\ Len(s) \in Nat \ {0}
  OBVIOUS
<1>2. \A i \in 2..Len(s) : i - 1 \in 1..(Len(s) - 1) /\ s[i] = Tail(s)[i - 1]
  BY <1>1
<1>3. Range(Tail(s)) \subseteq Range(s) \ {Head(s)}
  BY <1>1 DEF Range, IsInjective
<1>4. Range(s) \ {Head(s)} \subseteq Range(Tail(s))
  <2> SUFFICES ASSUME NEW i \in 2..Len(s) PROVE s[i] \in Range(Tail(s))
    BY <1>1 DEF Range
  <2>1. i - 1 \in DOMAIN Tail(s) /\ s[i] = Tail(s)[i - 1]
    BY <1>1, <1>2
  <2>2. QED
    BY <2>1 DEF Range
<1>5. IsInjective(Tail(s))
  BY <1>1 DEF IsInjective
<1>6. Head(s) \in S /\ Head(s) \in Range(s)
  BY <1>1 DEF Range
<1>7. QED
  BY <1>1, <1>3, <1>4, <1>5, <1>6

\* The shift of _ipcServerDeleteSession.
LEMMA RemoveAtRange ==
    ASSUME NEW S, NEW s \in Seq(S), IsInjective(s), NEW i \in DOMAIN s
    PROVE  /\ RemoveAt(s, i) \in Seq(S)
           /\ Range(RemoveAt(s, i)) = Range(s) \ {s[i]}
           /\ IsInjective(RemoveAt(s, i))
<1> DEFINE r == RemoveAt(s, i)
           a == SubSeq(s, 1, i - 1)
           b == SubSeq(s, i + 1, Len(s))
<1>1. DOMAIN s = 1..Len(s) /\ Len(s) \in Nat /\ i \in 1..Len(s)
  OBVIOUS
<1>2. /\ a \in Seq(S) /\ Len(a) = i - 1
      /\ \A j \in 1..(i - 1) : a[j] = s[j]
  BY <1>1
<1>3. /\ b \in Seq(S) /\ Len(b) = Len(s) - i
      /\ \A j \in 1..(Len(s) - i) : b[j] = s[i + j]
  BY <1>1
<1>4. r = a \o b
  BY DEF RemoveAt
<1> HIDE DEF r, a, b
<1>5. /\ r \in Seq(S) /\ Len(r) = Len(s) - 1
      /\ \A j \in 1..(Len(s) - 1) : r[j] = IF j < i THEN s[j] ELSE s[j + 1]
  <2>1. /\ a \o b \in Seq(S) /\ Len(a \o b) = Len(a) + Len(b)
        /\ \A j \in 1..(Len(a) + Len(b)) :
              (a \o b)[j] = IF j <= Len(a) THEN a[j] ELSE b[j - Len(a)]
    BY <1>2, <1>3, ConcatProperties
  <2>2. Len(a) + Len(b) = Len(s) - 1
    BY <1>1, <1>2, <1>3
  <2>3. ASSUME NEW j \in 1..(Len(s) - 1)
        PROVE  r[j] = IF j < i THEN s[j] ELSE s[j + 1]
    <3>1. CASE j < i
      BY <1>1, <1>2, <1>4, <2>1, <2>2, <3>1
    <3>2. CASE ~(j < i)
      <4>1. j - (i - 1) \in 1..(Len(s) - i) /\ i + (j - (i - 1)) = j + 1
        BY <1>1, <3>2
      <4>2. r[j] = b[j - (i - 1)]
        BY <1>1, <1>2, <1>4, <2>1, <2>2, <3>2
      <4>3. QED
        BY <1>3, <3>2, <4>1, <4>2
    <3>3. QED
      BY <3>1, <3>2
  <2>4. QED
    BY <1>4, <2>1, <2>2, <2>3
<1>6. DOMAIN r = 1..(Len(s) - 1)
  BY <1>5
<1>7. Range(r) \subseteq Range(s) \ {s[i]}
  <2> SUFFICES ASSUME NEW j \in 1..(Len(s) - 1) PROVE r[j] \in Range(s) \ {s[i]}
    BY <1>6 DEF Range
  <2>1. PICK k \in 1..Len(s) : k # i /\ r[j] = s[k]
    BY <1>1, <1>5
  <2>2. QED
    BY <1>1, <2>1 DEF Range, IsInjective
<1>8. Range(s) \ {s[i]} \subseteq Range(r)
  <2> SUFFICES ASSUME NEW k \in 1..Len(s), k # i PROVE s[k] \in Range(r)
    BY <1>1 DEF Range
  <2>1. PICK j \in 1..(Len(s) - 1) : r[j] = s[k]
    <3>1. CASE k < i
      <4>1. k \in 1..(Len(s) - 1)
        BY <1>1, <3>1
      <4>2. QED
        BY <1>5, <3>1, <4>1
    <3>2. CASE k > i
      <4>1. k - 1 \in 1..(Len(s) - 1) /\ ~(k - 1 < i) /\ k - 1 + 1 = k
        BY <1>1, <3>2
      <4>2. QED
        BY <1>5, <4>1
    <3>3. QED
      BY <1>1, <3>1, <3>2
  <2>2. QED
    BY <1>6, <2>1 DEF Range
<1>9. IsInjective(r)
  <2> SUFFICES ASSUME NEW j \in 1..(Len(s) - 1), NEW k \in 1..(Len(s) - 1), r[j] = r[k]
               PROVE  j = k
    BY <1>6 DEF IsInjective
  <2> DEFINE At(x) == IF x < i THEN x ELSE x + 1
  <2>1. \A x \in 1..(Len(s) - 1) : At(x) \in 1..Len(s) /\ r[x] = s[At(x)]
    BY <1>1, <1>5
  <2>2. At(j) = At(k)
    BY <1>1, <2>1 DEF IsInjective
  <2>3. QED
    BY <1>1, <2>2
<1>10. QED
  BY <1>5, <1>7, <1>8, <1>9 DEF r

\* A table without repetitions has as many entries as sessions.
LEMMA TableCardinality ==
    ASSUME NEW S, NEW s \in Seq(S), IsInjective(s)
    PROVE  IsFiniteSet(Range(s)) /\ Cardinality(Range(s)) = Len(s)
<1>1. DOMAIN s = 1..Len(s) /\ Len(s) \in Nat
  OBVIOUS
<1>2. IsFiniteSet(1..Len(s)) /\ Cardinality(1..Len(s)) = Len(s)
  BY <1>1, FS_Interval
<1>3. s \in Bijection(1..Len(s), Range(s))
  BY <1>1 DEF Bijection, Injection, Surjection, Range, IsInjective
<1>4. ExistsBijection(1..Len(s), Range(s))
  BY <1>3 DEF ExistsBijection
<1>5. QED
  BY <1>2, <1>4, FS_Bijection

-----------------------------------------------------------------------------
(* The invariant.                                                          *)

Inv == TypeOK /\ IpcInv

\* Only sessions of the kernel are alive, so they can be counted.
LEMMA LiveFinite ==
    ASSUME TypeOK
    PROVE  Live \subseteq Session /\ IsFiniteSet(Live) /\ Cardinality(Live) \in Nat
<1>1. Range(port) \subseteq Session
  BY DEF TypeOK, Range
<1>2. Live \subseteq Session
  BY <1>1 DEF TypeOK, Live
<1>3. QED
  BY <1>2, IpcServerAssumption, FS_Subset, FS_CardinalityType

\* A step that connects no client keeps the count within the limit.
LEMMA LiveShrinks ==
    ASSUME TypeOK, SessionInv, Live' \subseteq Live
    PROVE  Cardinality(Live') <= MaxSessions
<1>1. IsFiniteSet(Live) /\ Cardinality(Live) \in Nat
  BY LiveFinite
<1>2. Cardinality(Live') <= Cardinality(Live) /\ Cardinality(Live') \in Nat
  BY <1>1, FS_Subset, FS_CardinalityType
<1>3. QED
  BY <1>1, <1>2, IpcServerAssumption DEF SessionInv

LEMMA InitInv == Init => Inv
<1> SUFFICES ASSUME Init PROVE Inv
  OBVIOUS
<1>1. TypeOK
  <2>1. <<>> \in Seq(Session) /\ req \in [Session -> Request \cup {NoRequest}]
    BY EmptySeq DEF Init
  <2>2. QED
    BY <2>1 DEF Init, TypeOK
<1>2. Range(port) = {} /\ Range(table) = {} /\ Live = {}
  BY DEF Init, Range, Live
<1>3. Cardinality(Live) = 0
  BY <1>2, FS_EmptySet
<1>4. SessionInv
  BY <1>2, <1>3, IpcServerAssumption
  DEF Init, SessionInv, HandlesMatch, IsInjective, NoRequest
<1>5. ThreadInv
  BY DEF Init, ThreadInv
<1>6. QED
  BY <1>1, <1>4, <1>5 DEF Inv, IpcInv

-----------------------------------------------------------------------------
(* The clients.                                                            *)

LEMMA ConnectInv ==
    ASSUME Inv, NEW s \in Session, Connect(s) PROVE Inv'
<1> USE DEF Inv, IpcInv
<1>1. /\ s \notin Live /\ s \notin client /\ s \notin opened /\ s \notin Range(port)
      /\ Cardinality(Live) < MaxSessions
  BY DEF Connect, Live
<1>2. /\ port' \in Seq(Session) /\ Range(port') = Range(port) \cup {s}
      /\ IsInjective(port') /\ port' # <<>>
  BY <1>1, AppendRange DEF Connect, TypeOK, SessionInv
<1>3. TypeOK'
  BY <1>2 DEF Connect, TypeOK, threadVars, mainVars
<1>4. Live' = Live \cup {s}
  BY <1>2 DEF Connect, Live
<1>5. Cardinality(Live') <= MaxSessions
  <2>1. IsFiniteSet(Live) /\ Cardinality(Live) \in Nat
    BY LiveFinite
  <2>2. Cardinality(Live \cup {s}) = Cardinality(Live) + 1
    BY <1>1, <2>1, FS_AddElement
  <2>3. QED
    BY <1>1, <1>4, <2>1, <2>2, IpcServerAssumption
<1>6. HandlesMatch'
  BY DEF Connect, SessionInv, HandlesMatch, threadVars
<1>7. \A t \in Session : req'[t] # NoRequest => Connected(t)'
  BY <1>2 DEF Connect, SessionInv, Connected
<1>8. SessionInv'
  BY <1>1, <1>2, <1>5, <1>6, <1>7 DEF Connect, SessionInv
<1>9. index \in DOMAIN table => table[index] # s
  BY <1>1 DEF SessionInv, HandlesMatch, Range
<1>10. ThreadInv'
  BY <1>2, <1>9 DEF Connect, ThreadInv, Signalled, threadVars
<1>11. QED
  BY <1>3, <1>8, <1>10

LEMMA AskInv ==
    ASSUME Inv, NEW s \in Session, NEW r \in Request, Ask(s, r) PROVE Inv'
<1> USE DEF Inv, IpcInv
<1>1. TypeOK'
  BY DEF Ask, TypeOK, threadVars, mainVars
<1>2. Live' = Live
  BY DEF Ask, Live
<1>3. \A t \in Session : req'[t] # NoRequest => Connected(t)'
  BY DEF Ask, SessionInv, Connected, TypeOK
<1>4. SessionInv'
  BY <1>2, <1>3 DEF Ask, SessionInv, HandlesMatch, threadVars
<1>5. index \in DOMAIN table => table[index] \in Session
  BY DEF TypeOK
<1>6. r # NoRequest /\ NoRequest \notin Handled
  BY DEF Request, Handled, NoRequest
<1>7. ThreadInv'
  <2>1. tpc = "receive" => Signalled(index)'
    BY <1>5, <1>6 DEF Ask, ThreadInv, Signalled, TypeOK, threadVars
  <2>2. tpc = "reply" => req'[table[index]] = got \/ table[index] \notin client
    BY <1>5, <1>6 DEF Ask, ThreadInv, TypeOK, Connected
  <2>3. QED
    BY <2>1, <2>2 DEF Ask, ThreadInv, threadVars
<1>8. QED
  BY <1>1, <1>4, <1>7

LEMMA LeaveInv ==
    ASSUME Inv, NEW s \in Session, Leave(s) PROVE Inv'
<1> USE DEF Inv, IpcInv
<1>1. TypeOK'
  BY DEF Leave, TypeOK, threadVars, mainVars
<1>2. Live' \subseteq Live
  BY DEF Leave, Live
<1>3. \A t \in Session : req'[t] # NoRequest => Connected(t)'
  BY DEF Leave, SessionInv, Connected, TypeOK
<1>4. SessionInv'
  BY <1>2, <1>3, LiveShrinks DEF Leave, SessionInv, HandlesMatch, threadVars
<1>5. index \in DOMAIN table => table[index] \in Session
  BY DEF TypeOK
<1>6. ThreadInv'
  BY <1>5 DEF Leave, ThreadInv, Signalled, TypeOK, threadVars
<1>7. QED
  BY <1>1, <1>4, <1>6

-----------------------------------------------------------------------------
(* The thread.                                                             *)

\* Closing an entry of the table, which takes it out.
LEMMA DeleteInv ==
    ASSUME Inv, index \in DOMAIN table, DeleteSession(index), UNCHANGED <<client, port>>
    PROVE  /\ table' \in Seq(Session) /\ opened' \subseteq Session
           /\ req' \in [Session -> Request \cup {NoRequest}]
           /\ SessionInv'
<1> USE DEF Inv, IpcInv
<1> DEFINE s == table[index]
<1>1. s \in Session
  BY DEF TypeOK
<1>2. IsInjective(table) /\ Range(table) = opened
  BY DEF SessionInv, HandlesMatch
<1>3. /\ table' \in Seq(Session) /\ IsInjective(table')
      /\ Range(table') = Range(table) \ {s}
  BY <1>2, RemoveAtRange DEF DeleteSession, TypeOK
<1>4. opened' = opened \ {s} /\ req' = [req EXCEPT ![s] = NoRequest]
  BY DEF DeleteSession, CloseHandle
<1>5. HandlesMatch'
  BY <1>2, <1>3, <1>4 DEF HandlesMatch
<1>6. Live' \subseteq Live
  BY <1>4 DEF Live
<1> HIDE DEF s
<1>7. \A t \in Session : req'[t] # NoRequest => Connected(t)'
  BY <1>1, <1>4 DEF SessionInv, Connected, TypeOK
<1>8. QED
  BY <1>1, <1>3, <1>4, <1>5, <1>6, <1>7, LiveShrinks DEF SessionInv, TypeOK

LEMMA WaitInv == ASSUME Inv, Wait PROVE Inv'
<1> USE DEF Inv, IpcInv
<1>1. TypeOK'
  <2>1. index' \in Nat
    BY DEF Wait, WaitPort, WaitSession, WaitCancelled, TypeOK
  <2>2. /\ tpc' \in {"created", "wait", "new", "receive", "reply", "ended"}
        /\ cancel' \in BOOLEAN
    BY DEF Wait, WaitPort, WaitSession, WaitCancelled, TypeOK
  <2>3. QED
    BY <2>1, <2>2 DEF Wait, TypeOK, kernelVars, mainVars
<1>2. SessionInv'
  BY DEF Wait, SessionInv, HandlesMatch, Live, Connected, kernelVars
<1>3. ThreadInv'
  BY DEF Wait, WaitPort, WaitSession, WaitCancelled, ThreadInv, Signalled, kernelVars
<1>4. QED
  BY <1>1, <1>2, <1>3

LEMMA ReceiveInv == ASSUME Inv, Receive PROVE Inv'
<1> USE DEF Inv, IpcInv
<1>1. index \in DOMAIN table /\ tpc = "receive"
  BY DEF Receive, ThreadInv
<1>2. CASE req[table[index]] \in Handled
  <2>1. TypeOK'
    BY <1>2 DEF Receive, TypeOK
  <2>2. SessionInv'
    BY <1>2 DEF Receive, SessionInv, HandlesMatch, Live, Connected
  <2>3. ThreadInv'
    BY <1>1, <1>2 DEF Receive, ThreadInv
  <2>4. QED
    BY <2>1, <2>2, <2>3
<1>3. CASE req[table[index]] \notin Handled
  <2>1. DeleteSession(index) /\ tpc' = "wait" /\ UNCHANGED <<client, port>>
    BY <1>3 DEF Receive
  <2>2. TypeOK'
    BY <1>1, <1>3, <2>1, DeleteInv DEF Receive, TypeOK
  <2>3. ThreadInv'
    BY <2>1 DEF ThreadInv
  <2>4. QED
    BY <1>1, <2>1, <2>2, <2>3, DeleteInv
<1>4. QED
  BY <1>2, <1>3

LEMMA ReplyInv == ASSUME Inv, Reply PROVE Inv'
<1> USE DEF Inv, IpcInv
<1>1. index \in DOMAIN table /\ tpc = "reply" /\ tpc' = "wait"
  BY DEF Reply, ThreadInv
<1>2. ThreadInv'
  BY <1>1 DEF ThreadInv
<1>3. CASE table[index] \in client /\ got # "close"
  <2>1. /\ req' = [req EXCEPT ![table[index]] = NoRequest]
        /\ UNCHANGED <<client, port, opened, table>>
    BY <1>3 DEF Reply
  <2>2. TypeOK'
    BY <1>1, <2>1 DEF Reply, TypeOK, mainVars
  <2>3. SessionInv'
    BY <2>1 DEF SessionInv, HandlesMatch, Live, Connected, TypeOK
  <2>4. QED
    BY <1>2, <2>2, <2>3
<1>4. CASE ~(table[index] \in client /\ got # "close")
  <2>1. DeleteSession(index) /\ UNCHANGED <<client, port>>
    BY <1>4 DEF Reply
  <2>2. TypeOK'
    BY <1>1, <2>1, DeleteInv DEF Reply, TypeOK, mainVars
  <2>3. QED
    BY <1>1, <1>2, <2>1, <2>2, DeleteInv
<1>5. QED
  BY <1>3, <1>4

\* The sessions of the table and the connection at the head of the port are
\* alive and all different, so there is room for one more.
LEMMA RoomForOne == ASSUME Inv, tpc = "new" PROVE ~Full
<1> USE DEF Inv, IpcInv
<1>1. port # <<>> /\ IsInjective(port) /\ port \in Seq(Session)
  BY DEF ThreadInv, SessionInv, TypeOK
<1>2. Head(port) \in Range(port)
  BY <1>1, TailRange
<1>3. /\ table \in Seq(Session) /\ IsInjective(table) /\ Range(table) = opened
      /\ Range(port) \cap opened = {} /\ Cardinality(Live) <= MaxSessions
  BY DEF SessionInv, HandlesMatch, TypeOK
<1>4. IsFiniteSet(opened) /\ Cardinality(opened) = Len(table) /\ Len(table) \in Nat
  BY <1>3, TableCardinality
<1>5. IsFiniteSet(opened \cup {Head(port)})
      /\ Cardinality(opened \cup {Head(port)}) = Len(table) + 1
  BY <1>2, <1>3, <1>4, FS_AddElement
<1>6. opened \cup {Head(port)} \subseteq Live
  BY <1>2 DEF Live
<1>7. IsFiniteSet(Live) /\ Cardinality(Live) \in Nat
  BY LiveFinite
<1>8. Cardinality(opened \cup {Head(port)}) <= Cardinality(Live)
  BY <1>6, <1>7, FS_Subset
<1>9. QED
  BY <1>3, <1>4, <1>5, <1>7, <1>8, IpcServerAssumption DEF Full

LEMMA NewSessionInv == ASSUME Inv, NewSession PROVE Inv'
<1> USE DEF Inv, IpcInv
<1> DEFINE s == Head(port)
<1>1. ~Full /\ port # <<>>
  BY RoomForOne DEF NewSession, ThreadInv
<1>2. /\ opened' = opened \cup {s} /\ table' = Append(table, s) /\ port' = Tail(port)
      /\ UNCHANGED <<client, req>> /\ tpc' = "wait"
  BY <1>1 DEF NewSession
<1>3. /\ port' \in Seq(Session) /\ s \in Session /\ s \in Range(port)
      /\ Range(port') = Range(port) \ {s} /\ IsInjective(port')
  BY <1>1, <1>2, TailRange DEF SessionInv, TypeOK
<1> HIDE DEF s
<1>4. /\ table' \in Seq(Session) /\ IsInjective(table')
      /\ Range(table') = Range(table) \cup {s}
  BY <1>2, <1>3, AppendRange DEF SessionInv, HandlesMatch, TypeOK
<1>5. TypeOK'
  BY <1>2, <1>3, <1>4 DEF NewSession, TypeOK, mainVars
<1>6. HandlesMatch'
  BY <1>2, <1>4 DEF SessionInv, HandlesMatch
<1>7. opened' \cup Range(port') = opened \cup Range(port)
  BY <1>2, <1>3
<1>8. Live' \subseteq Live
  BY <1>2, <1>7 DEF Live
<1>9. \A t \in Session : req'[t] # NoRequest => Connected(t)'
  BY <1>2, <1>7 DEF SessionInv, Connected
<1>10. SessionInv'
  BY <1>2, <1>3, <1>6, <1>8, <1>9, LiveShrinks DEF SessionInv
<1>11. ThreadInv'
  BY <1>2 DEF ThreadInv
<1>12. QED
  BY <1>5, <1>10, <1>11

-----------------------------------------------------------------------------
(* main.                                                                   *)

LEMMA MainStartsInv == ASSUME Inv, MainStarts PROVE Inv'
<1> USE DEF Inv, IpcInv
<1>1. TypeOK'
  BY DEF MainStarts, TypeOK, kernelVars, threadVars
<1>2. SessionInv'
  BY DEF MainStarts, SessionInv, HandlesMatch, Live, Connected, kernelVars, threadVars
<1>3. ThreadInv'
  BY DEF MainStarts, ThreadInv, Signalled, kernelVars, threadVars
<1>4. QED
  BY <1>1, <1>2, <1>3

LEMMA MainStopsInv == ASSUME Inv, MainStops PROVE Inv'
<1> USE DEF Inv, IpcInv
<1>1. TypeOK'
  BY DEF MainStops, TypeOK, kernelVars
<1>2. SessionInv'
  BY DEF MainStops, SessionInv, HandlesMatch, Live, Connected, kernelVars
<1>3. ThreadInv'
  BY DEF MainStops, ThreadInv, Signalled, kernelVars
<1>4. QED
  BY <1>1, <1>2, <1>3

LEMMA MainExitsInv == ASSUME Inv, MainExits PROVE Inv'
<1> USE DEF Inv, IpcInv
<1>1. /\ table' = <<>> /\ port' = <<>> /\ UNCHANGED client
      /\ opened' = opened \ Range(table) /\ Range(table) = opened
  BY DEF MainExits, SessionInv, HandlesMatch
<1>2. opened' = {} /\ Range(table') = {} /\ Range(port') = {}
  BY <1>1 DEF Range
<1>3. IsInjective(table') /\ IsInjective(port') /\ <<>> \in Seq(Session)
  BY <1>1, EmptySeq DEF IsInjective
<1>4. \A t \in Session : req'[t] = NoRequest
  <2> SUFFICES ASSUME NEW t \in Session, t \notin Range(table) \cup Range(port)
               PROVE  req[t] = NoRequest
    BY DEF MainExits
  <2>1. QED
    BY <1>1 DEF SessionInv, Connected
<1>5. TypeOK'
  <2>1. req' \in [Session -> Request \cup {NoRequest}]
    BY DEF MainExits, TypeOK
  <2>2. QED
    BY <1>1, <1>2, <1>3, <2>1 DEF MainExits, TypeOK
<1>6. Live' \subseteq Live
  BY <1>1, <1>2 DEF Live
<1>7. SessionInv'
  BY <1>2, <1>3, <1>4, <1>6, LiveShrinks DEF SessionInv, HandlesMatch
<1>8. ThreadInv'
  BY DEF MainExits, ThreadInv
<1>9. QED
  BY <1>5, <1>7, <1>8

-----------------------------------------------------------------------------
(* The theorems.                                                           *)

LEMMA NextInv == ASSUME Inv, [Next]_vars PROVE Inv'
<1>1. CASE Clients
  BY <1>1, ConnectInv, AskInv, LeaveInv DEF Clients
<1>2. CASE Thread
  BY <1>2, WaitInv, NewSessionInv, ReceiveInv, ReplyInv DEF Thread
<1>3. CASE Main
  BY <1>3, MainStartsInv, MainStopsInv, MainExitsInv DEF Main
<1>4. CASE UNCHANGED vars
  BY <1>4 DEF Inv, IpcInv, TypeOK, SessionInv, HandlesMatch, Live, Connected,
     ThreadInv, Signalled, vars, kernelVars, threadVars, mainVars
<1>5. QED
  BY <1>1, <1>2, <1>3, <1>4 DEF Next

LEMMA InvHolds == Spec => []Inv
<1>1. Init => Inv
  BY InitInv
<1>2. Inv /\ [Next]_vars => Inv'
  BY NextInv
<1>3. QED
  BY <1>1, <1>2, PTL DEF Spec

\* The table of ipc_server.c holds exactly the open handles, each once, after
\* any sequence of connects, requests, failures and closes.
THEOREM TableMatches == Spec => []HandlesMatch
<1>1. Inv => HandlesMatch
  BY DEF Inv, IpcInv, SessionInv
<1>2. QED
  BY <1>1, InvHolds, PTL

\* _ipcServerAddSession finds room whenever the kernel let a client through.
THEOREM NeverFull == Spec => []NoneRefused
<1>1. Inv => NoneRefused
  BY RoomForOne DEF NoneRefused
<1>2. QED
  BY <1>1, InvHolds, PTL

\* What a step may close: no session of a client that waits for the answer to
\* a command loses it.
LEMMA StepCloses ==
    ASSUME Inv, [Next]_vars, NEW s \in opened \ opened'
    PROVE  s \notin client \/ req[s] \in {"close", "malformed"} \/ mpc' = "done"
<1> USE DEF Inv, IpcInv
<1>1. CASE Receive
  <2>1. index \in DOMAIN table /\ Signalled(index) /\ table[index] \in Session
    BY <1>1 DEF Receive, ThreadInv, TypeOK
  <2>2. s = table[index] /\ req[s] \notin Handled
    BY <1>1 DEF Receive, DeleteSession, CloseHandle
  <2>3. req[s] \in Request \cup {NoRequest}
    BY <2>1, <2>2 DEF TypeOK
  <2>4. QED
    BY <2>1, <2>2, <2>3 DEF Signalled, Request, Handled
<1>2. CASE Reply
  <2>1. s = table[index] /\ ~(s \in client /\ got # "close")
    BY <1>2 DEF Reply, DeleteSession, CloseHandle
  <2>2. req[s] = got \/ s \notin client
    BY <1>2, <2>1 DEF Reply, ThreadInv
  <2>3. QED
    BY <2>1, <2>2
<1>3. CASE MainExits
  BY <1>3 DEF MainExits
<1>4. CASE \/ Clients \/ Wait \/ NewSession \/ MainStarts \/ MainStops \/ UNCHANGED vars
  <2>1. opened \subseteq opened'
    BY <1>4 DEF Clients, Connect, Ask, Leave, Wait, NewSession, MainStarts, MainStops,
       vars, kernelVars
  <2>2. QED
    BY <2>1
<1>5. QED
  BY <1>1, <1>2, <1>3, <1>4 DEF Next, Thread, Main

\* The service closes a session only for a cause its client gave, or at the end.
THEOREM ClosesForCause == Spec => ClosedForCause
<1>1. Inv /\ [Next]_vars =>
        [\A s \in opened \ opened' :
            s \notin client \/ req[s] \in {"close", "malformed"} \/ mpc' = "done"]_vars
  BY StepCloses
<1>2. QED
  BY <1>1, InvHolds, PTL DEF Spec, ClosedForCause
=============================================================================
