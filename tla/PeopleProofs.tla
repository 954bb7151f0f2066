---------------------------- MODULE PeopleProofs ----------------------------
(***************************************************************************)
(* Proofs about who is who: the codes that sign a phone in (Telegram), the *)
(* accounts (Accounts) and the profiles (Profiles).                        *)
(*                                                                         *)
(* SpentCodesStaySpent speaks of rows only, and is kept because of what    *)
(* requests hold: a code about to be written was never on a row before,    *)
(* and a code being compared is on no other row than the one it was read   *)
(* from.  The same goes for accounts and profiles: a request saves a row   *)
(* as it was when it was loaded, and the invariants say what that row is   *)
(* as long as nothing else wrote it.                                       *)
(***************************************************************************)
EXTENDS Accounts, Telegram, Profiles, TLAPS

---------------------------------------------------------------------------
(* Codes *)


\* Nothing is held, accepted or marked as sent before it was asked for.
AskedFirst ==
    /\ \A h \in Handlers : req[h].kind \in {"contact", "verify"} => sent_at[req[h].code] # -1
    /\ \A k \in accepted : sent_at[k] # -1
    /\ \A v \in Rows : row[v].status = "CODE_SENT" => row[v].code # 0

\* The code a contact request is about to write is nowhere else.
NewInHand ==
    \A h \in Handlers : req[h].kind = "contact" =>
        /\ req[h].code \notin accepted
        /\ \A v \in Rows : row[v].code # req[h].code
        /\ \A g \in Handlers : req[g].code = req[h].code => g = h

OneRowPerCode ==
    \A v, w \in Rows : row[v].code = row[w].code /\ row[v].code # 0 => v = w

\* The code a verification compares is on no other row than it was read from.
ComparedOnItsRow ==
    \A h \in Handlers, v \in Rows :
        req[h].kind = "verify" /\ row[v].code = req[h].code => v = req[h].row

SpentIsConsumed == \A v \in Rows : row[v].code \in accepted => row[v].consumed

CodesInv ==
    /\ TTypeOK
    /\ AskedFirst
    /\ NewInHand
    /\ OneRowPerCode
    /\ ComparedOnItsRow
    /\ SpentIsConsumed

---------------------------------------------------------------------------

\* The bounds and limits, one by one.
LEMMA Limits ==
    /\ MaxRows \in Nat /\ MaxCodes \in Nat /\ MaxTime \in Nat
    /\ CODE_TTL \in Nat /\ SESSION_TTL \in Nat
    /\ MAX_VERIFY_ATTEMPTS \in Nat /\ MAX_VERIFY_ATTEMPTS > 0
  BY BoundsAssumption, LimitsAssumption

\* A request is one of four kinds, each with its fields.
LEMMA RequestFields ==
    ASSUME NEW r \in Request
    PROVE  /\ r.kind \in {"idle", "start", "contact", "verify"}
           /\ r.kind = "idle" => r = Idle
           /\ r.kind \in {"contact", "verify"} => r.row \in Rows /\ r.code \in Codes
           /\ r.kind = "verify" =>
                  r.attempts \in 0 .. MAX_VERIFY_ATTEMPTS - 1 /\ r.right \in BOOLEAN
           /\ r.code # 0 <=> r.kind \in {"contact", "verify"}
<1>1. CASE r = Idle
  BY <1>1 DEF Idle
<1>2. CASE r \in [kind : {"start"}, row : {0}, code : {0}, attempts : {0}, right : {FALSE}]
  BY <1>2
<1>3. CASE r \in [kind : {"contact"}, row : Rows, code : Codes, attempts : {0}, right : {FALSE}]
  BY <1>3, Limits DEF Codes
<1>4. CASE r \in [kind : {"verify"}, row : Rows, code : Codes,
                  attempts : 0 .. MAX_VERIFY_ATTEMPTS - 1, right : BOOLEAN]
  BY <1>4, Limits DEF Codes
<1> QED
  BY <1>1, <1>2, <1>3, <1>4 DEF Request

\* Initially: no row, no code, no request.
LEMMA CodesInitInv == TInit => CodesInv
<1> SUFFICES ASSUME TInit PROVE CodesInv
  OBVIOUS
<1> USE Limits DEF TInit
<1>1. /\ NewRow \in Row
      /\ Idle \in Request
  BY DEF NewRow, Row, Status, Request, Time
<1>2. TTypeOK
  <2>1. entered \in BOOLEAN /\ crossed \in BOOLEAN
    BY Zenon
  <2>2. /\ row \in [Rows -> Row] /\ sent_at \in [Codes -> Time \cup {-1}] /\ clock \in Time
        /\ req \in [Handlers -> Request] /\ accepted \subseteq Codes
    BY <1>1 DEF Time
  <2> QED
    BY <2>1, <2>2 DEF TTypeOK, NewRow
<1> QED
  BY <1>2 DEF CodesInv, AskedFirst, NewInHand, OneRowPerCode, ComparedOnItsRow, SpentIsConsumed,
              NewRow, Idle

\* A step of Start on the rows: one may become a new session, the others keep
\* what they hold, and at most lose their status.
RowsOnlySwept ==
    /\ row' \in [Rows -> Row]
    /\ \A v \in Rows :
           /\ row'[v].code \in {row[v].code, 0}
           /\ row'[v].code # 0 => row'[v].consumed = row[v].consumed
                                  /\ row'[v].attempts = row[v].attempts
           /\ row'[v].status \in {"CODE_SENT", "VERIFIED"} => row'[v] = row[v]
           /\ row'[v].status = "AWAITING_CONTACT" => row'[v].code = 0 \/ row'[v] = row[v]

LEMMA SweepingRows ==
    ASSUME CodesInv, NEW h \in Handlers, StartSweeps(h)
    PROVE  /\ RowsOnlySwept
           /\ \A v \in Rows : row'[v] = [row[v] EXCEPT !.status = IF Swept(v) THEN "GONE" ELSE @]
<1>1. /\ row \in [Rows -> Row]
      /\ row' = [v \in Rows |-> [row[v] EXCEPT !.status = IF Swept(v) THEN "GONE" ELSE @]]
  BY DEF StartSweeps, CodesInv, TTypeOK
<1>2. ASSUME NEW v \in Rows
      PROVE  /\ row'[v] \in Row /\ row'[v].code = row[v].code
             /\ row'[v].consumed = row[v].consumed /\ row'[v].attempts = row[v].attempts
             /\ row'[v].status # "GONE" => row'[v] = row[v]
  BY <1>1 DEF Row, Status
<1>3. row' \in [Rows -> Row]
  BY <1>1, <1>2
<1> QED
  BY <1>1, <1>2, <1>3 DEF RowsOnlySwept

LEMMA CreatingRows ==
    ASSUME CodesInv, NEW h \in Handlers, StartCreates(h)
    PROVE  /\ RowsOnlySwept
           /\ \A v \in Rows : row[v].status # "ABSENT" => row'[v] = row[v]
<1>1. PICK new \in Rows :
          /\ row[new].status = "ABSENT"
          /\ row' = [row EXCEPT ![new] = [NewRow EXCEPT !.status = "AWAITING_CONTACT",
                                                      !.created_at = clock]]
  BY DEF StartCreates
<1>2. NewRow \in Row /\ NewRow.code = 0 /\ clock \in Time
  BY Limits DEF NewRow, Row, Status, Time, CodesInv, TTypeOK
<1> DEFINE fresh == [NewRow EXCEPT !.status = "AWAITING_CONTACT", !.created_at = clock]
<1>3. fresh \in Row /\ fresh.code = 0 /\ fresh.status = "AWAITING_CONTACT"
  BY <1>2 DEF Row, Status
<1> HIDE DEF fresh
<1>4. /\ row' \in [Rows -> Row] /\ row'[new] = fresh
      /\ \A v \in Rows : v # new => row'[v] = row[v]
  BY <1>1, <1>3 DEF fresh, CodesInv, TTypeOK
<1> QED
  BY <1>1, <1>3, <1>4 DEF RowsOnlySwept

\* Starting a session changes no code of a row that is there.
LEMMA StartKeeps ==
    ASSUME CodesInv, NEW h \in Handlers, StartSweeps(h) \/ StartCreates(h)
    PROVE  CodesInv'
<1> USE Limits DEF CodesInv
<1>1. UNCHANGED <<sent_at, clock, accepted, entered, crossed>>
  BY DEF StartSweeps, StartCreates
<1>2. RowsOnlySwept
  BY SweepingRows, CreatingRows
<1>3. /\ req' \in [Handlers -> Request]
      /\ \A g \in Handlers : req'[g] = req[g] \/ req'[g].code = 0
  <2> DEFINE start == [Idle EXCEPT !.kind = "start"]
  <2>1. start \in Request /\ start.code = 0 /\ Idle \in Request /\ Idle.code = 0
    BY DEF Idle, Request
  <2>2. req' = [req EXCEPT ![h] = start] \/ req' = [req EXCEPT ![h] = Idle]
    BY DEF StartSweeps, StartCreates, Holding, End
  <2> HIDE DEF start
  <2> QED
    BY <2>1, <2>2 DEF TTypeOK
<1>4. \A g \in Handlers : req'[g].kind \in {"contact", "verify"} =>
          req'[g] = req[g] /\ req[g].code \in Codes /\ req[g].code # 0
  BY <1>3, RequestFields DEF TTypeOK
<1>5. 0 \notin Codes /\ accepted \subseteq Codes
  BY DEF Codes, TTypeOK
<1>6. TTypeOK'
  BY <1>1, <1>2, <1>3 DEF TTypeOK, RowsOnlySwept
<1>7. AskedFirst'
  BY <1>1, <1>2, <1>4 DEF AskedFirst, RowsOnlySwept
<1>8. NewInHand'
  BY <1>1, <1>2, <1>3, <1>4 DEF NewInHand, RowsOnlySwept
<1>9. OneRowPerCode'
  BY <1>2 DEF OneRowPerCode, RowsOnlySwept
<1>10. ComparedOnItsRow'
  BY <1>2, <1>4 DEF ComparedOnItsRow, RowsOnlySwept
<1>11. SpentIsConsumed'
  BY <1>1, <1>2, <1>5 DEF SpentIsConsumed, RowsOnlySwept
<1> QED
  BY <1>6, <1>7, <1>8, <1>9, <1>10, <1>11

\* A contact read takes a code that nobody has.
LEMMA ContactReadKeeps ==
    ASSUME CodesInv, NEW h \in Handlers, NEW v \in Rows, ContactRead(h, v)
    PROVE  CodesInv'
<1> USE Limits DEF CodesInv
<1>1. PICK k \in Codes :
          /\ sent_at[k] = -1
          /\ sent_at' = [sent_at EXCEPT ![k] = clock]
          /\ Holding(h, [Idle EXCEPT !.kind = "contact", !.row = v, !.code = k])
  BY DEF ContactRead, Unused
<1>2. UNCHANGED <<row, clock, accepted>> /\ entered' = FALSE /\ crossed' = FALSE
  BY DEF ContactRead
<1>3. /\ req[h] = Idle
      /\ req'[h].kind = "contact" /\ req'[h].row = v /\ req'[h].code = k
      /\ \A g \in Handlers : g # h => req'[g] = req[g]
      /\ req' \in [Handlers -> Request]
  BY <1>1 DEF Holding, TTypeOK, Idle, Request
<1>4. /\ sent_at'[k] # -1 /\ clock # -1
      /\ \A j \in Codes : sent_at[j] # -1 => sent_at'[j] # -1
      /\ sent_at' \in [Codes -> Time \cup {-1}]
  BY <1>1 DEF TTypeOK, Time
<1>5. TTypeOK'
  BY <1>2, <1>3, <1>4 DEF TTypeOK, Row
<1>6. 0 \notin Codes
  BY DEF Codes
<1>7. ASSUME NEW g \in Handlers, g # h
      PROVE  req[g].code # k
  <2>1. req[g].kind \in {"contact", "verify"} \/ req[g].code = 0
    BY RequestFields DEF TTypeOK
  <2> QED
    BY <2>1, <1>1, <1>6 DEF AskedFirst
<1>8. \A w \in Rows : row[w].code # k
  BY <1>1, <1>6 DEF TTypeOK
<1>9. AskedFirst'
  <2>1. ASSUME NEW g \in Handlers, g # h, req[g].kind \in {"contact", "verify"}
        PROVE  sent_at'[req[g].code] # -1
    BY <2>1, <1>4, RequestFields DEF TTypeOK, AskedFirst
  <2> QED
    BY <2>1, <1>2, <1>3, <1>4 DEF AskedFirst, TTypeOK
<1>10. k \notin accepted
  BY <1>1 DEF AskedFirst
<1>11. NewInHand'
  BY <1>2, <1>3, <1>7, <1>8, <1>10 DEF NewInHand
<1>12. OneRowPerCode' /\ SpentIsConsumed'
  BY <1>2 DEF OneRowPerCode, SpentIsConsumed
<1>13. ComparedOnItsRow'
  BY <1>2, <1>3 DEF ComparedOnItsRow
<1> QED
  BY <1>5, <1>9, <1>11, <1>12, <1>13

\* A contact write puts a new code on one row.
LEMMA ContactWriteKeeps ==
    ASSUME CodesInv, NEW h \in Handlers, ContactWrite(h)
    PROVE  CodesInv'
<1> USE Limits DEF CodesInv
<1> DEFINE r == req[h]
<1>1. /\ r.kind = "contact" /\ r.row \in Rows /\ r.code \in Codes
      /\ UNCHANGED <<sent_at, clock, accepted, entered>> /\ crossed' \in BOOLEAN
  BY RequestFields DEF ContactWrite, Crosses, TTypeOK
<1>2. /\ req'[h] = Idle
      /\ \A g \in Handlers : g # h => req'[g] = req[g]
      /\ req' \in [Handlers -> Request]
  BY DEF ContactWrite, End, TTypeOK, Request
<1>3. /\ \A v \in Rows : v # r.row => row'[v] = row[v]
      /\ row'[r.row].consumed = row[r.row].consumed
      /\ \/ row' = row
         \/ row'[r.row].code = r.code
      /\ row' \in [Rows -> Row]
  BY <1>1 DEF ContactWrite, TTypeOK, Row, Status
<1>4. sent_at[r.code] # -1 /\ r.code # 0
  BY <1>1 DEF AskedFirst, Codes
<1>5. TTypeOK'
  BY <1>1, <1>2, <1>3, <1>4 DEF TTypeOK
<1>6. AskedFirst'
  BY <1>1, <1>2, <1>3, <1>4 DEF AskedFirst, Idle
<1>7. NewInHand'
  BY <1>1, <1>2, <1>3, RequestFields DEF NewInHand, Idle, TTypeOK
<1>8. OneRowPerCode'
  BY <1>1, <1>3 DEF OneRowPerCode, NewInHand
<1>9. ComparedOnItsRow'
  BY <1>1, <1>2, <1>3 DEF ComparedOnItsRow, NewInHand, Idle
<1>10. SpentIsConsumed'
  BY <1>1, <1>3 DEF SpentIsConsumed, NewInHand
<1> QED
  BY <1>5, <1>6, <1>7, <1>8, <1>9, <1>10

\* A verification read holds a code of the row it will write.
LEMMA VerifyReadKeeps ==
    ASSUME CodesInv, NEW h \in Handlers, NEW v \in Rows, NEW right \in BOOLEAN,
           VerifyRead(h, v, right)
    PROVE  CodesInv'
<1> USE Limits DEF CodesInv
<1>1. /\ row[v].status = "CODE_SENT" /\ row[v].attempts < MAX_VERIFY_ATTEMPTS
      /\ UNCHANGED <<row, sent_at, clock, accepted, crossed>> /\ entered' \in BOOLEAN
  BY DEF VerifyRead, Acceptable, Candidate, Live, CodesInv, TTypeOK
<1>2. row[v].code \in Codes /\ sent_at[row[v].code] # -1
  BY <1>1 DEF AskedFirst, TTypeOK, Row
<1> DEFINE r == [kind |-> "verify", row |-> v, code |-> row[v].code,
                 attempts |-> row[v].attempts, right |-> right]
<1>3. r \in Request
  BY <1>1, <1>2 DEF Request, TTypeOK, Row
<1>4. /\ req[h] = Idle /\ req'[h] = r
      /\ \A g \in Handlers : g # h => req'[g] = req[g]
      /\ req' \in [Handlers -> Request]
  BY <1>3 DEF VerifyRead, Holding, TTypeOK
<1> HIDE DEF r
<1>5. r.kind = "verify" /\ r.row = v /\ r.code = row[v].code
  BY DEF r
<1>6. TTypeOK'
  BY <1>1, <1>4 DEF TTypeOK
<1>7. AskedFirst'
  BY <1>1, <1>2, <1>4, <1>5 DEF AskedFirst
<1>8. NewInHand'
  BY <1>1, <1>4, <1>5 DEF NewInHand
<1>9. OneRowPerCode' /\ SpentIsConsumed'
  BY <1>1 DEF OneRowPerCode, SpentIsConsumed
<1>10. ComparedOnItsRow'
  <2>1. \A w \in Rows : row[w].code = row[v].code => w = v
    BY <1>2 DEF OneRowPerCode, Codes
  <2> QED
    BY <2>1, <1>1, <1>4, <1>5 DEF ComparedOnItsRow
<1> QED
  BY <1>6, <1>7, <1>8, <1>9, <1>10

\* A verification write consumes the only row its code can be on, or counts.
LEMMA VerifyWriteKeeps ==
    ASSUME CodesInv, NEW h \in Handlers, VerifyWrite(h)
    PROVE  CodesInv'
<1> USE Limits DEF CodesInv
<1> DEFINE r == req[h]
<1>1. /\ r.kind = "verify" /\ r.row \in Rows /\ r.code \in Codes
      /\ r.attempts + 1 \in 0 .. MAX_VERIFY_ATTEMPTS
      /\ UNCHANGED <<sent_at, clock, entered, crossed>>
  BY RequestFields DEF VerifyWrite, TTypeOK
<1>2. /\ req'[h] = Idle
      /\ \A g \in Handlers : g # h => req'[g] = req[g]
      /\ req' \in [Handlers -> Request]
  BY DEF VerifyWrite, End, TTypeOK, Request
<1>3. /\ \A v \in Rows : v # r.row => row'[v] = row[v]
      /\ \A v \in Rows : row'[v].code = row[v].code
      /\ \A v \in Rows : row[v].consumed => row'[v].consumed
      /\ \A v \in Rows : row'[v].status = "CODE_SENT" => row[v].status = "CODE_SENT"
      /\ row' \in [Rows -> Row]
  BY <1>1 DEF VerifyWrite, TTypeOK, Row, Status
<1>4. \/ accepted' = accepted
      \/ accepted' = accepted \cup {r.code} /\ row'[r.row].consumed
  BY <1>1 DEF VerifyWrite, TTypeOK, Row
<1>5. TTypeOK'
  BY <1>1, <1>2, <1>3, <1>4 DEF TTypeOK
<1>6. AskedFirst'
  BY <1>1, <1>2, <1>3, <1>4 DEF AskedFirst, Idle
<1>7. NewInHand'
  BY <1>1, <1>2, <1>3, <1>4, RequestFields DEF NewInHand, Idle, TTypeOK
<1>8. OneRowPerCode' /\ ComparedOnItsRow'
  BY <1>2, <1>3 DEF OneRowPerCode, ComparedOnItsRow, Idle
<1>9. SpentIsConsumed'
  BY <1>1, <1>3, <1>4 DEF SpentIsConsumed, ComparedOnItsRow
<1> QED
  BY <1>5, <1>6, <1>7, <1>8, <1>9

\* Every step keeps the invariant.
LEMMA CodesNextInv == CodesInv /\ [TNext]_tvars => CodesInv'
<1> SUFFICES ASSUME CodesInv, [TNext]_tvars PROVE CodesInv'
  OBVIOUS
<1>1. ASSUME Tick PROVE CodesInv'
  BY <1>1, Limits DEF Tick, CodesInv, TTypeOK, AskedFirst, NewInHand, OneRowPerCode,
                       ComparedOnItsRow, SpentIsConsumed, Time, Row
<1>2. CASE UNCHANGED tvars
  BY <1>2 DEF tvars, CodesInv, TTypeOK, AskedFirst, NewInHand, OneRowPerCode,
              ComparedOnItsRow, SpentIsConsumed
<1> QED
  BY <1>1, <1>2, StartKeeps, ContactReadKeeps, ContactWriteKeeps, VerifyReadKeeps, VerifyWriteKeeps
  DEF TNext

\* The invariant holds of every behaviour.
LEMMA CodesInvariance == TSpec => []CodesInv
  BY CodesInitInv, CodesNextInv, PTL DEF TSpec

---------------------------------------------------------------------------

\* Types: with any limits and any number of overlapping requests, no row
\* counts more than MAX_VERIFY_ATTEMPTS wrong codes.
THEOREM CodesTypeCorrect == TSpec => []TTypeOK
<1>1. CodesInv => TTypeOK
  BY DEF CodesInv
<1> QED
  BY <1>1, CodesInvariance, PTL

\* A code that has signed someone in is never compared with again: whatever
\* overlaps, its row stays consumed, and it is on no other row.
THEOREM CodesAreSingleUse == TSpec => []SpentCodesStaySpent
<1>1. CodesInv => SpentCodesStaySpent
  BY DEF CodesInv, SpentIsConsumed, SpentCodesStaySpent, Acceptable, Candidate, Live
<1> QED
  BY <1>1, CodesInvariance, PTL

---------------------------------------------------------------------------

\* A code on a row was sent at some time; a row that shows CODE_SENT has one.
LEMMA SentTimes ==
    ASSUME CodesInv, NEW v \in Rows
    PROVE  /\ row[v].code \in Int
           /\ row[v].code # 0 =>
                  /\ row[v].code \in Codes
                  /\ sent_at[row[v].code] \in Int /\ sent_at[row[v].code] # -1
           /\ row[v].status = "CODE_SENT" => row[v].code # 0
<1>1. row[v].code \in Codes \cup {0}
  BY DEF CodesInv, TTypeOK, Row
<1>2. ASSUME row[v].code # 0 PROVE sent_at[row[v].code] \in Time /\ sent_at[row[v].code] # -1
  BY <1>1, <1>2 DEF CodesInv, TTypeOK
<1> QED
  BY <1>1, <1>2, Limits DEF CodesInv, AskedFirst, Codes, Time

\* A step of Start takes no usable code but a swept session's.
LEMMA StartLosesSwept ==
    ASSUME CodesInv, NEW h \in Handlers, StartSweeps(h) \/ StartCreates(h),
           NEW v \in Rows, Acceptable(v), ~Acceptable(v)'
    PROVE  LostForAReason(v)
<1>1. UNCHANGED <<sent_at, clock>> /\ RowsOnlySwept
  BY SweepingRows, CreatingRows DEF StartSweeps, StartCreates
<1>2. \A w \in Rows : Live(w)' => Live(w) /\ row'[w] = row[w]
  BY <1>1 DEF Live, RowsOnlySwept
<1>3. row'[v] # row[v]
  BY <1>1, <1>2 DEF Acceptable, Candidate, Live
<1>4. row[v].status = "CODE_SENT"
  BY DEF Acceptable, Candidate, Live
<1>5. ~StartCreates(h)
  BY <1>3, <1>4, CreatingRows
<1>6. row'[v] = [row[v] EXCEPT !.status = IF Swept(v) THEN "GONE" ELSE @] /\ row[v] \in Row
  BY <1>5, SweepingRows DEF CodesInv, TTypeOK
<1>7. Swept(v) /\ row'[v].status = "GONE"
  BY <1>3, <1>6 DEF Row
<1> QED
  BY <1>7 DEF Swept, LostForAReason

\* Putting a code on one row takes away the codes it supersedes.
LEMMA ContactWriteSupersedes ==
    ASSUME CodesInv, NEW h \in Handlers, ContactWrite(h),
           NEW v \in Rows, Acceptable(v), ~Acceptable(v)'
    PROVE  LostForAReason(v)
<1> DEFINE r == req[h]
<1>1. /\ r.row \in Rows /\ r.code \in Codes
      /\ UNCHANGED <<sent_at, clock>>
  BY RequestFields DEF ContactWrite, CodesInv, TTypeOK
<1>2. SUFFICES ASSUME r.row # v, ~(r.code > row[v].code) PROVE FALSE
  BY DEF LostForAReason, Supersedes
<1>3. /\ \A w \in Rows : w # r.row => row'[w] = row[w]
      /\ row'[r.row] = row[r.row] \/ row'[r.row].code = r.code
  BY <1>1 DEF ContactWrite, CodesInv, TTypeOK, Row
<1>4. row'[v] = row[v] /\ row[v].code \in Codes \cup {0} /\ r.code <= row[v].code
  BY <1>1, <1>2, <1>3, Limits DEF CodesInv, TTypeOK, Row, Codes
<1>5. ASSUME NEW w \in Rows, Live(w)'
      PROVE  row'[w].code <= row'[v].code
  <2>1. CASE row'[w] = row[w]
    BY <2>1, <1>4, <1>5, <1>1 DEF Live, Acceptable, Candidate
  <2>2. CASE row'[w].code = r.code
    BY <2>2, <1>4
  <2> QED
    BY <2>1, <2>2, <1>3
<1>6. Live(v)' /\ row'[v].attempts < MAX_VERIFY_ATTEMPTS
  BY <1>1, <1>4 DEF Live, Acceptable, Candidate
<1> QED
  BY <1>5, <1>6 DEF Acceptable, Candidate

\* The write of a verification takes away no code but its own row's.
LEMMA VerifyWriteTakesItsOwn ==
    ASSUME CodesInv, NEW h \in Handlers, VerifyWrite(h),
           NEW v \in Rows, Acceptable(v), ~Acceptable(v)'
    PROVE  LostForAReason(v)
<1> DEFINE r == req[h]
<1>1. r.row \in Rows /\ UNCHANGED <<sent_at, clock>>
  BY RequestFields DEF VerifyWrite, CodesInv, TTypeOK
<1>2. SUFFICES ASSUME r.row # v PROVE FALSE
  BY DEF LostForAReason
<1>3. \A w \in Rows :
          /\ w # r.row => row'[w] = row[w]
          /\ row'[w].code = row[w].code
          /\ row'[w].status = "CODE_SENT" => row[w].status = "CODE_SENT"
          /\ row[w].consumed => row'[w].consumed
  BY <1>1 DEF VerifyWrite, CodesInv, TTypeOK, Row
<1>4. \A w \in Rows : Live(w)' => Live(w)
  BY <1>1, <1>3 DEF Live, Sent, CodesInv, TTypeOK, Row
<1> QED
  BY <1>1, <1>2, <1>3, <1>4 DEF Acceptable, Candidate, Live

\* The five reasons are all there are, whatever overlaps: in particular no
\* new session takes away a code whose own session is in time.
THEOREM CodesAreLostForAReason == TSpec => LiveCodesAreLostForAReason
<1>1. ASSUME CodesInv, [TNext]_tvars, NEW v \in Rows, Acceptable(v), ~Acceptable(v)'
      PROVE  LostForAReason(v)
  <2>1. ASSUME Tick PROVE LostForAReason(v)
    <3>1. UNCHANGED row /\ UNCHANGED sent_at /\ clock' = clock + 1
      BY <2>1 DEF Tick
    <3>2. /\ clock \in Int
          /\ CODE_TTL \in Int
          /\ \A w \in Rows : row[w].status = "CODE_SENT" => sent_at[row[w].code] \in Int
      BY <1>1, Limits, SentTimes DEF CodesInv, TTypeOK, Time
    <3>3. \A w \in Rows : Live(w)' => Live(w)
      BY <3>1, <3>2 DEF Live
    <3>4. Live(v) /\ (~Live(v)' => clock' >= sent_at[row[v].code] + CODE_TTL)
      BY <1>1, <3>1, <3>2, Limits DEF Live, Acceptable, Candidate
    <3> QED
      BY <1>1, <3>1, <3>3, <3>4 DEF Acceptable, Candidate, LostForAReason
  <2>2. ASSUME NEW h \in Handlers, NEW w \in Rows,
               ContactRead(h, w) \/ \E right \in BOOLEAN : VerifyRead(h, w, right)
        PROVE  FALSE
    <3>1. UNCHANGED <<row, clock>>
      BY <2>2 DEF ContactRead, VerifyRead
    <3>2. \A k \in Codes : sent_at[k] # -1 => sent_at'[k] = sent_at[k]
      <4>1. CASE ContactRead(h, w)
        BY <1>1, <4>1 DEF ContactRead, Unused, CodesInv, TTypeOK
      <4>2. CASE \E right \in BOOLEAN : VerifyRead(h, w, right)
        BY <4>2 DEF VerifyRead
      <4> QED
        BY <2>2, <4>1, <4>2
    <3>3. \A u \in Rows :
              row[u].status = "CODE_SENT" => sent_at'[row[u].code] = sent_at[row[u].code]
      BY <1>1, <3>2, SentTimes
    <3>4. \A u \in Rows : Live(u)' <=> Live(u)
      BY <3>1, <3>3 DEF Live
    <3> QED
      BY <1>1, <3>1, <3>4 DEF Acceptable, Candidate
  <2>3. CASE UNCHANGED tvars
    BY <1>1, <2>3 DEF tvars, Acceptable, Candidate, Live
  <2> QED
    BY <1>1, <2>1, <2>2, <2>3, StartLosesSwept, ContactWriteSupersedes, VerifyWriteTakesItsOwn
    DEF TNext
<1>2. CodesInv /\ [TNext]_tvars =>
          [\A v \in Rows : Acceptable(v) /\ ~Acceptable(v)' => LostForAReason(v)]_tvars
  BY <1>1
<1> QED
  BY <1>2, CodesInvariance, PTL DEF TSpec, LiveCodesAreLostForAReason, LostForAReason

---------------------------------------------------------------------------

AskedInOrder == \A j, k \in Codes : j < k /\ sent_at[k] # -1 => sent_at[j] # -1

\* A row as its contact left it: nobody has read it, so nobody is about to write it.
Untouched(v) ==
    /\ row[v].attempts = 0 /\ ~row[v].consumed /\ ~Verifying(v)
    /\ Present(v) => row[v].status = "CODE_SENT"

\* So is the row of the newest code asked for, as long as nothing has been entered
\* for it and no verification crossed its contact.
FreshInv ==
    /\ AskedInOrder
    /\ ~entered /\ ~crossed => \A v \in Rows : Newest(row[v].code) => Untouched(v)

\* What was asked for last is no row's code before it is written.
LEMMA AskedLast ==
    ASSUME CodesInv, FreshInv, NEW h \in Handlers, NEW v \in Rows, ContactRead(h, v)
    PROVE  FreshInv'
<1>1. CodesInv'
  BY ContactReadKeeps
<1>2. PICK k \in Codes :
          /\ Unused(k) /\ sent_at' = [sent_at EXCEPT ![k] = clock]
          /\ Holding(h, [Idle EXCEPT !.kind = "contact", !.row = v, !.code = k])
  BY DEF ContactRead
<1>3. req'[h].kind = "contact" /\ req'[h].code = k
  BY <1>2 DEF Holding, CodesInv, TTypeOK, Idle
<1>4. \A w \in Rows : row'[w].code # k
  BY <1>1, <1>3 DEF CodesInv, NewInHand
<1>5. /\ sent_at'[k] # -1 /\ sent_at[k] = -1
      /\ \A j \in Codes : j # k => sent_at'[j] = sent_at[j]
      /\ \A j \in Codes : j < k => sent_at[j] # -1
  BY <1>2, Limits DEF Unused, Codes, CodesInv, TTypeOK, Time
<1>6. \A j \in Codes : j > k => sent_at[j] = -1
  BY <1>5 DEF FreshInv, AskedInOrder
<1>7. AskedInOrder'
  BY <1>5, <1>6, Limits DEF AskedInOrder, Codes
<1>8. ASSUME NEW w \in Rows, Newest(row[w].code)' PROVE FALSE
  <2>1. PICK j \in Codes : j = row'[w].code /\ sent_at'[j] # -1 /\ j >= k /\ j # k
    BY <1>4, <1>5, <1>8 DEF Newest
  <2>2. j > k /\ sent_at[j] # -1
    BY <1>5, <2>1, Limits DEF Codes
  <2> QED
    BY <1>6, <2>2
<1> QED
  BY <1>7, <1>8 DEF FreshInv

\* Where nothing is asked for, it is enough that the row is untouched after the step.
LEMMA SameNewest ==
    ASSUME CodesInv, FreshInv, UNCHANGED sent_at,
           ASSUME NEW v \in Rows, Newest(row'[v].code), ~entered', ~crossed'
           PROVE  Untouched(v)'
    PROVE  FreshInv'
<1>1. AskedInOrder'
  BY DEF FreshInv, AskedInOrder
<1>2. ASSUME NEW v \in Rows, Newest(row[v].code)' PROVE Newest(row'[v].code)
  BY <1>2 DEF Newest
<1> QED
  BY <1>1, <1>2 DEF FreshInv

LEMMA StartLeavesFresh ==
    ASSUME CodesInv, FreshInv, NEW h \in Handlers, StartSweeps(h) \/ StartCreates(h)
    PROVE  FreshInv'
<1>1. /\ UNCHANGED sent_at /\ UNCHANGED entered /\ UNCHANGED crossed /\ RowsOnlySwept
  BY SweepingRows, CreatingRows DEF StartSweeps, StartCreates
<1>2. \A g \in Handlers : req'[g].kind = "verify" => req'[g] = req[g]
  BY DEF StartSweeps, StartCreates, Holding, End, Idle, CodesInv, TTypeOK
<1>3. ASSUME NEW v \in Rows, Newest(row'[v].code), ~entered', ~crossed'
      PROVE  Untouched(v)'
  <2>1. row'[v].code # 0
    BY <1>3, Limits DEF Newest, Codes
  <2>2. Untouched(v)
    BY <1>1, <1>3, <2>1 DEF RowsOnlySwept, FreshInv
  <2>3. Verifying(v)' => Verifying(v)
    BY <1>2 DEF Verifying
  <2> QED
    BY <1>1, <2>1, <2>2, <2>3 DEF RowsOnlySwept, Untouched, Present, Status
<1> QED
  BY <1>1, <1>3, SameNewest

\* A contact that is not crossed leaves its row untouched, and the others alone.
LEMMA ContactWriteLeavesFresh ==
    ASSUME CodesInv, FreshInv, NEW h \in Handlers, ContactWrite(h)
    PROVE  FreshInv'
<1> DEFINE r == req[h]
<1>1. /\ r.kind = "contact" /\ r.row \in Rows /\ UNCHANGED sent_at /\ UNCHANGED entered
      /\ crossed' = (crossed \/ (Newest(r.code) /\ (row[r.row].consumed \/ Verifying(r.row))))
  BY RequestFields DEF ContactWrite, Crosses, CodesInv, TTypeOK
<1>2. /\ req'[h] = Idle /\ \A g \in Handlers : g # h => req'[g] = req[g]
  BY DEF ContactWrite, End, CodesInv, TTypeOK
<1>3. /\ \A v \in Rows : v # r.row => row'[v] = row[v]
      /\ \/ row' = row
         \/ /\ row'[r.row].code = r.code /\ row'[r.row].attempts = 0
            /\ row'[r.row].status = "CODE_SENT" /\ row'[r.row].consumed = row[r.row].consumed
  BY <1>1 DEF ContactWrite, CodesInv, TTypeOK, Row, Status
<1>4. ASSUME NEW v \in Rows, Newest(row'[v].code), ~entered', ~crossed'
      PROVE  Untouched(v)'
  <2>1. ~entered /\ ~crossed
    BY <1>1, <1>4
  <2>2. Verifying(v)' => Verifying(v)
    BY <1>2 DEF Verifying, Idle
  <2>3. CASE row'[v] = row[v]
    BY <1>4, <2>1, <2>2, <2>3 DEF FreshInv, Untouched, Present
  <2>4. CASE row'[v] # row[v]
    <3>1. v = r.row /\ row'[v].code = r.code /\ row'[v].attempts = 0
          /\ row'[v].status = "CODE_SENT" /\ row'[v].consumed = row[v].consumed
      BY <1>3, <2>4
    <3>2. ~row[v].consumed /\ ~Verifying(v)
      BY <1>1, <1>4, <3>1
    <3> QED
      BY <2>2, <3>1, <3>2 DEF Untouched
  <2> QED
    BY <2>3, <2>4
<1> QED
  BY <1>1, <1>4, SameNewest

LEMMA VerifyReadLeavesFresh ==
    ASSUME CodesInv, FreshInv, NEW h \in Handlers, NEW v \in Rows, NEW right \in BOOLEAN,
           VerifyRead(h, v, right)
    PROVE  FreshInv'
<1>1. /\ UNCHANGED row /\ UNCHANGED sent_at /\ UNCHANGED crossed
      /\ entered' = (entered \/ Newest(row[v].code))
  BY DEF VerifyRead
<1>2. req'[h].row = v /\ \A g \in Handlers : g # h => req'[g] = req[g]
  BY DEF VerifyRead, Holding, CodesInv, TTypeOK
<1>3. ASSUME NEW w \in Rows, Newest(row'[w].code), ~entered', ~crossed'
      PROVE  Untouched(w)'
  <2>1. w # v /\ ~entered /\ ~crossed /\ Newest(row[w].code)
    BY <1>1, <1>3
  <2>2. Verifying(w)' => Verifying(w)
    BY <1>2, <2>1 DEF Verifying
  <2> QED
    BY <1>1, <2>1, <2>2 DEF FreshInv, Untouched, Present
<1> QED
  BY <1>1, <1>3, SameNewest

LEMMA VerifyWriteLeavesFresh ==
    ASSUME CodesInv, FreshInv, NEW h \in Handlers, VerifyWrite(h)
    PROVE  FreshInv'
<1> DEFINE r == req[h]
<1>1. /\ r.kind = "verify" /\ r.row \in Rows
      /\ UNCHANGED sent_at /\ UNCHANGED entered /\ UNCHANGED crossed
  BY RequestFields DEF VerifyWrite, CodesInv, TTypeOK
<1>2. req'[h] = Idle /\ \A g \in Handlers : g # h => req'[g] = req[g]
  BY DEF VerifyWrite, End, CodesInv, TTypeOK
<1>3. \A v \in Rows : row'[v].code = row[v].code /\ (v # r.row => row'[v] = row[v])
  BY <1>1 DEF VerifyWrite, CodesInv, TTypeOK, Row
<1>4. ASSUME NEW v \in Rows, Newest(row'[v].code), ~entered', ~crossed'
      PROVE  Untouched(v)'
  <2>1. Untouched(v)
    BY <1>1, <1>3, <1>4 DEF FreshInv
  <2>2. v # r.row /\ (Verifying(v)' => Verifying(v))
    BY <1>1, <1>2, <2>1 DEF Untouched, Verifying, Idle
  <2> QED
    BY <1>3, <2>1, <2>2 DEF Untouched, Present
<1> QED
  BY <1>1, <1>4, SameNewest

LEMMA FreshStays == CodesInv /\ FreshInv /\ [TNext]_tvars => FreshInv'
<1> SUFFICES ASSUME CodesInv, FreshInv, [TNext]_tvars PROVE FreshInv'
  OBVIOUS
<1>1. ASSUME Tick \/ UNCHANGED tvars PROVE FreshInv'
  <2>1. /\ row' = row /\ req' = req /\ sent_at' = sent_at
        /\ entered' = entered /\ crossed' = crossed
    BY <1>1 DEF Tick, tvars
  <2>2. ASSUME NEW v \in Rows, Newest(row'[v].code), ~entered', ~crossed' PROVE Untouched(v)'
    BY <2>1, <2>2 DEF FreshInv, Untouched, Verifying, Present
  <2> QED
    BY <2>1, <2>2, SameNewest
<1> QED
  BY <1>1, AskedLast, StartLeavesFresh, ContactWriteLeavesFresh, VerifyReadLeavesFresh,
     VerifyWriteLeavesFresh DEF TNext

\* FreshCodesWork: with any limits and any number of overlapping requests, the last
\* code sent keeps all its attempts until something is entered for it.
THEOREM SentCodesWork == TSpec => []FreshCodesWork
<1>1. TInit => FreshInv
  <2> SUFFICES ASSUME TInit PROVE FreshInv
    OBVIOUS
  <2>1. \A k \in Codes : sent_at[k] = -1
    BY DEF TInit
  <2> QED
    BY <2>1 DEF FreshInv, AskedInOrder, Newest
<1>2. CodesInv /\ FreshInv => FreshCodesWork
  <2> SUFFICES ASSUME CodesInv, FreshInv, NEW v \in Rows, Unentered(v), ~crossed
               PROVE  Acceptable(v) /\ row[v].attempts = 0
    BY DEF FreshCodesWork
  <2>1. Newest(row[v].code) /\ Untouched(v) /\ Present(v) /\ clock < sent_at[row[v].code] + CODE_TTL
    BY DEF Unentered, Sent, FreshInv
  <2>2. Live(v) /\ row[v].attempts = 0
    BY <2>1 DEF Untouched, Live
  <2>3. \A w \in Rows : Live(w) => row[w].code <= row[v].code
    BY <2>1, SentTimes DEF Newest, Live
  <2> QED
    BY <2>2, <2>3, Limits DEF Acceptable, Candidate
<1> QED
  BY <1>1, <1>2, FreshStays, CodesInvariance, CodesInitInv, PTL DEF TSpec

---------------------------------------------------------------------------
(* Accounts *)

Roles == {"BUYER", "ADMIN", "SUPPLIER", "QASSOB", "COURIER"}

UserRow == [at : {"absent", "here", "deleted"}, email : Numbers \cup {None, Bootstrap},
            phone : Numbers \cup {None}, role : Roles, secret : Nat]

Save == [u : Users \cup {0}, row : UserRow, issues : BOOLEAN, stale : BOOLEAN]

AccountTypes ==
    /\ user \in [Users -> UserRow]
    /\ save \in [Servers -> Save]
    /\ secrets \in Nat
    /\ handed \in [Numbers -> [role : Roles, secret : Nat]]

OnePhoneEach ==
    \A u, v \in Users : Exists(u) /\ Exists(v) /\ user[u].phone = user[v].phone
                        /\ user[u].phone # None => u = v

\* A save that hands out a password saves a partner with that password; any
\* other holds the role and the password of its row, unless that was written since.
Sound(s) == save[s] # NoSave =>
    /\ save[s].row.at = "here"
    /\ save[s].issues => save[s].row.role \in Partners /\ save[s].row.secret # 0
    /\ ~save[s].issues => save[s].u \in Users
    /\ ~save[s].issues /\ ~save[s].stale =>
           /\ save[s].row.role = user[save[s].u].role
           /\ save[s].row.secret = user[save[s].u].secret
    /\ save[s].u \in Users => user[save[s].u].at # "absent"

SavesAreSound == \A s \in Servers : Sound(s)

\* u is the account that the credentials handed for n open.
Opens(u, n) ==
    /\ Exists(u) /\ user[u].phone = n
    /\ user[u].role = handed[n].role /\ user[u].role \in Partners
    /\ user[u].secret = handed[n].secret /\ user[u].secret # 0

CredentialsOpen == \A n \in Numbers : handed[n] # NoCredentials => \E u \in Users : Opens(u, n)

AccountsInv == AccountTypes /\ OnePhoneEach /\ SavesAreSound /\ CredentialsOpen

LEMMA AccountFields ==
    /\ 0 \notin Users /\ 0 \in Nat /\ None \notin Numbers
    /\ NoUser \in UserRow /\ NoUser.at = "absent" /\ NoUser.phone = None
    /\ NoSave \in Save /\ NoSave.u = 0 /\ NoSave.stale = FALSE
    /\ NoCredentials \in [role : Roles, secret : Nat]
    /\ Partners \subseteq Roles /\ WorkRoles \subseteq Partners
    /\ \A n \in Numbers : /\ FromPhone(n) \in UserRow
                          /\ FromPhone(n).at = "here" /\ FromPhone(n).phone = n
<1>1. 0 \notin Users /\ 0 \in Nat /\ None \notin Numbers
  BY AccountsAssumption DEF Users
<1>2. NoUser \in UserRow /\ NoUser.at = "absent" /\ NoUser.phone = None
  BY DEF NoUser, UserRow, Roles
<1>3. NoSave \in Save /\ NoSave.u = 0 /\ NoSave.stale = FALSE
  BY <1>2 DEF NoSave, Save
<1>4. \A n \in Numbers : /\ FromPhone(n) \in UserRow
                         /\ FromPhone(n).at = "here" /\ FromPhone(n).phone = n
  BY <1>2 DEF FromPhone, UserRow
<1>5. /\ NoCredentials \in [role : Roles, secret : Nat]
      /\ Partners \subseteq Roles /\ WorkRoles \subseteq Partners
  BY AccountsAssumption DEF NoCredentials, Roles, Partners
<1> QED
  BY <1>1, <1>2, <1>3, <1>4, <1>5

\* Loading or making a row that is to be saved writes nothing.
LEMMA BeginKeeps ==
    ASSUME AccountsInv, NEW s \in Servers, NEW u \in Users \cup {0}, NEW r \in UserRow,
           NEW issues \in BOOLEAN, Begin(s, u, r, issues), UNCHANGED user, secrets' \in Nat,
           r.at = "here",
           issues => r.role \in Partners /\ r.secret # 0,
           ~issues => u \in Users /\ r.role = user[u].role /\ r.secret = user[u].secret,
           u \in Users => user[u].at # "absent"
    PROVE  AccountsInv'
<1> DEFINE w == [NoSave EXCEPT !.u = u, !.row = r, !.issues = issues]
<1>1. /\ w \in Save /\ w.u = u /\ w.row = r /\ w.issues = issues /\ w.stale = FALSE
  BY AccountFields DEF NoSave, Save
<1> HIDE DEF w
<1>2. save' = [save EXCEPT ![s] = w] /\ UNCHANGED handed
  BY DEF Begin, w
<1>3. save' \in [Servers -> Save] /\ save'[s] = w /\ \A t \in Servers \ {s} : save'[t] = save[t]
  BY <1>1, <1>2 DEF AccountsInv, AccountTypes
<1>4. \A t \in Servers \ {s} : Sound(t)'
  BY <1>3 DEF AccountsInv, SavesAreSound, Sound
<1>5. Sound(s)'
  BY <1>1, <1>3 DEF Sound
<1> QED
  BY <1>2, <1>3, <1>4, <1>5 DEF AccountsInv, AccountTypes, SavesAreSound, OnePhoneEach,
     CredentialsOpen, Opens, Exists

\* Inserting a row leaves the others alone, and no save has loaded it.
LEMMA InsertKeeps ==
    ASSUME AccountsInv, NEW u \in Users, NEW r \in UserRow, r.at = "here", Insert(u, r),
           UNCHANGED handed
    PROVE  /\ user' \in [Users -> UserRow] /\ user'[u] = r
           /\ OnePhoneEach' /\ CredentialsOpen'
           /\ \A t \in Servers : save'[t] = save[t] => Sound(t)'
<1>1. /\ user' \in [Users -> UserRow] /\ user'[u] = r /\ user[u].at = "absent"
      /\ \A v \in Users \ {u} : user'[v] = user[v]
  BY DEF Insert, NextUser, AccountsInv, AccountTypes
<1>2. OnePhoneEach'
  BY <1>1 DEF Insert, Unique, AccountsInv, OnePhoneEach, Exists
<1>3. CredentialsOpen'
  BY <1>1 DEF AccountsInv, CredentialsOpen, Opens, Exists
<1>4. \A t \in Servers : save'[t] = save[t] => Sound(t)'
  BY <1>1 DEF AccountsInv, SavesAreSound, Sound
<1> QED
  BY <1>1, <1>2, <1>3, <1>4

\* A copy of row u that is marked as stale.
LEMMA MarkedCopy ==
    ASSUME AccountTypes, NEW u \in Users, NEW t \in Servers
    PROVE  LET w == [save[t] EXCEPT !.stale = @ \/ save[t].u = u] IN
           /\ w \in Save /\ w.u = save[t].u /\ w.row = save[t].row /\ w.issues = save[t].issues
           /\ w.stale = (save[t].stale \/ save[t].u = u)
           /\ save[t] = NoSave => w = NoSave
<1>1. save[t] \in Save
  BY DEF AccountTypes
<1>2. save[t] = NoSave => [save[t] EXCEPT !.stale = @ \/ save[t].u = u] = NoSave
  <2> SUFFICES ASSUME save[t] = NoSave PROVE [save[t] EXCEPT !.stale = @ \/ save[t].u = u] = NoSave
    OBVIOUS
  <2>1. (save[t].stale \/ save[t].u = u) = FALSE
    BY AccountFields
  <2>2. [NoSave EXCEPT !.stale = FALSE] = NoSave
    <3> DEFINE Only == [u : {0}, row : {NoUser}, issues : {FALSE}, stale : {FALSE}]
    <3>1. NoSave \in Only /\ [NoSave EXCEPT !.stale = FALSE] \in Only
      BY DEF NoSave
    <3> QED
      BY <3>1
  <2> QED
    BY <2>1, <2>2
<1> QED
  BY <1>1, <1>2 DEF Save

\* Registration, by email, by phone or of the first administrator.
LEMMA RegisterKeeps ==
    ASSUME AccountsInv, NEW u \in Users,
           \/ \E n \in Numbers \cup {None} : Register(u, n)
           \/ \E n \in Numbers : PhoneRegister(u, n)
           \/ AdminUnlock(u)
    PROVE  AccountsInv'
<1>1. PICK r \in UserRow : r.at = "here" /\ Insert(u, r)
  <2>1. ASSUME NEW n \in Numbers \cup {None}
        PROVE  /\ [NoUser EXCEPT !.at = "here", !.phone = n] \in UserRow
               /\ [NoUser EXCEPT !.at = "here", !.phone = n].at = "here"
    BY DEF NoUser, UserRow, Roles
  <2>2. /\ [NoUser EXCEPT !.at = "here", !.role = "ADMIN", !.email = Bootstrap] \in UserRow
        /\ [NoUser EXCEPT !.at = "here", !.role = "ADMIN", !.email = Bootstrap].at = "here"
    BY DEF NoUser, UserRow, Roles
  <2> QED
    BY <2>1, <2>2, AccountFields DEF Register, PhoneRegister, AdminUnlock
<1>2. UNCHANGED save /\ UNCHANGED secrets /\ UNCHANGED handed
  BY DEF Register, PhoneRegister, AdminUnlock
<1> QED
  BY <1>1, <1>2, InsertKeeps DEF AccountsInv, AccountTypes, SavesAreSound

\* A PATCH, or a provisioning that found its row or has to make one.
LEMMA LoadKeeps ==
    ASSUME AccountsInv, NEW s \in Servers,
           \/ \E n \in Numbers, r \in WorkRoles : ProvisionRead(s, n, r)
           \/ \E u \in Users, n \in Numbers \cup {None} :
                  ProvisionCourierRead(s, u, n) \/ PatchRead(s, u, n)
    PROVE  AccountsInv'
<1>1. secrets \in Nat /\ secrets + 1 \in Nat /\ secrets + 1 # 0
  BY DEF AccountsInv, AccountTypes
<1>2. ASSUME NEW n \in Numbers, NEW r \in WorkRoles, ProvisionRead(s, n, r)
      PROVE  AccountsInv'
  <2>1. UNCHANGED user /\ secrets' = secrets + 1 /\ r \in Partners /\ r \in Roles
    BY <1>2, AccountFields DEF ProvisionRead, NewSecret
  <2>2. ASSUME NEW u \in Users, Exists(u),
               Begin(s, u, [user[u] EXCEPT !.role = r, !.secret = secrets'], TRUE)
        PROVE  AccountsInv'
    <3> DEFINE x == [user[u] EXCEPT !.role = r, !.secret = secrets']
    <3>1. x \in UserRow /\ x.at = "here" /\ x.role = r /\ x.secret = secrets + 1
      BY <1>1, <2>1, <2>2 DEF AccountsInv, AccountTypes, UserRow, Exists
    <3> HIDE DEF x
    <3>2. Begin(s, u, x, TRUE) /\ user[u].at # "absent"
      BY <2>2 DEF x, Exists
    <3> QED
      BY <1>1, <2>1, <3>1, <3>2, BeginKeeps
  <2>3. ASSUME Begin(s, 0, [FromPhone(n) EXCEPT !.role = r, !.secret = secrets'], TRUE)
        PROVE  AccountsInv'
    <3> DEFINE x == [FromPhone(n) EXCEPT !.role = r, !.secret = secrets']
    <3>1. x \in UserRow /\ x.at = "here" /\ x.role = r /\ x.secret = secrets + 1
      BY <1>1, <2>1, AccountFields DEF UserRow
    <3> HIDE DEF x
    <3>2. Begin(s, 0, x, TRUE)
      BY <2>3 DEF x
    <3> QED
      BY <1>1, <2>1, <3>1, <3>2, BeginKeeps, AccountFields
  <2> QED
    BY <1>2, <2>2, <2>3 DEF ProvisionRead
<1>3. ASSUME NEW u \in Users, NEW n \in Numbers \cup {None}, ProvisionCourierRead(s, u, n)
      PROVE  AccountsInv'
  <2> DEFINE x == [user[u] EXCEPT !.role = "COURIER", !.secret = secrets',
                                  !.phone = IF n = None THEN @ ELSE n]
  <2>1. UNCHANGED user /\ secrets' = secrets + 1 /\ Exists(u) /\ Begin(s, u, x, TRUE)
    BY <1>3 DEF ProvisionCourierRead, NewSecret
  <2>2. x \in UserRow /\ x.at = "here" /\ x.role = "COURIER" /\ x.secret = secrets + 1
    <3>1. user[u] \in UserRow
      BY DEF AccountsInv, AccountTypes
    <3> QED
      BY <1>1, <2>1, <3>1 DEF UserRow, Exists, Roles
  <2> HIDE DEF x
  <2>3. user[u].at # "absent" /\ "COURIER" \in Partners
    BY <2>1 DEF Exists, Partners
  <2> QED
    BY <1>1, <2>1, <2>2, <2>3, BeginKeeps
<1>4. ASSUME NEW u \in Users, NEW n \in Numbers \cup {None}, PatchRead(s, u, n)
      PROVE  AccountsInv'
  <2> DEFINE x == [user[u] EXCEPT !.phone = n]
  <2>1. UNCHANGED user /\ secrets' = secrets /\ Exists(u) /\ Begin(s, u, x, FALSE)
    BY <1>4 DEF PatchRead
  <2>2. x \in UserRow /\ x.at = "here" /\ x.role = user[u].role /\ x.secret = user[u].secret
    <3>1. user[u] \in UserRow
      BY DEF AccountsInv, AccountTypes
    <3> QED
      BY <2>1, <3>1 DEF UserRow, Exists
  <2> HIDE DEF x
  <2>3. user[u].at # "absent"
    BY <2>1 DEF Exists
  <2> QED
    BY <1>1, <2>1, <2>2, <2>3, BeginKeeps
<1> QED
  BY <1>2, <1>3, <1>4

\* ... or that get_or_create inserts first.
LEMMA ProvisionCourierNewKeeps ==
    ASSUME AccountsInv, NEW s \in Servers, NEW u \in Users, NEW n \in Numbers \cup {None},
           ProvisionCourierNew(s, u, n)
    PROVE  AccountsInv'
<1> DEFINE r == [NoUser EXCEPT !.at = "here", !.phone = n, !.role = "COURIER"]
           x == [r EXCEPT !.secret = secrets']
           w == [NoSave EXCEPT !.u = u, !.row = x, !.issues = TRUE]
<1>1. secrets' = secrets + 1 /\ secrets' \in Nat /\ secrets' # 0
  BY DEF ProvisionCourierNew, NewSecret, AccountsInv, AccountTypes
<1>2. r \in UserRow /\ r.at = "here" /\ r.role = "COURIER"
  BY AccountFields DEF UserRow, Roles
<1>3. x \in UserRow /\ x.at = "here" /\ x.role \in Partners /\ x.secret # 0
  BY <1>1, <1>2 DEF UserRow, Partners
<1>4. Insert(u, r) /\ UNCHANGED handed /\ save' = [save EXCEPT ![s] = w]
  BY DEF ProvisionCourierNew, Begin
<1> HIDE DEF r, x
<1>5. w \in Save /\ w.u = u /\ w.row = x /\ w.issues = TRUE
  BY <1>3, AccountFields DEF NoSave, Save
<1> HIDE DEF w
<1>6. /\ user' \in [Users -> UserRow] /\ user'[u] = r
      /\ OnePhoneEach' /\ CredentialsOpen'
      /\ \A t \in Servers : save'[t] = save[t] => Sound(t)'
  BY <1>2, <1>4, InsertKeeps
<1>7. save' \in [Servers -> Save] /\ save'[s] = w /\ \A t \in Servers \ {s} : save'[t] = save[t]
  BY <1>4, <1>5 DEF AccountsInv, AccountTypes
<1>8. Sound(s)'
  BY <1>2, <1>3, <1>5, <1>6, <1>7 DEF Sound
<1> QED
  BY <1>1, <1>4, <1>6, <1>7, <1>8 DEF AccountsInv, AccountTypes, SavesAreSound

\* Writing a row: the credentials of the numbers it had and has are the ones
\* that it hands out, those that its copy still held, or none.
LEMMA SaveRowKeeps ==
    ASSUME AccountsInv, NEW s \in Servers, NEW u \in Users, SaveRow(s, u)
    PROVE  AccountsInv'
<1> DEFINE w == save[s]
           void == ({user[u].phone} \ {w.row.phone}) \cup (IF w.stale THEN {w.row.phone} ELSE {})
<1>1. /\ w # NoSave /\ (u = w.u \/ (w.u = 0 /\ NextUser(u)))
      /\ Unique(u, w.row) /\ UNCHANGED secrets
      /\ user' = [user EXCEPT ![u] = w.row]
      /\ save' = MarkStale(s, u)
      /\ handed' = [n \in Numbers |->
             IF w.issues /\ n = w.row.phone THEN [role |-> w.row.role, secret |-> w.row.secret]
             ELSE IF n \in void THEN NoCredentials ELSE handed[n]]
  BY DEF SaveRow, Saved
<1>2. w \in Save /\ w.row \in UserRow /\ Sound(s) /\ w.row.at = "here"
  <2>1. w \in Save /\ Sound(s)
    BY DEF AccountsInv, AccountTypes, SavesAreSound
  <2> QED
    BY <1>1, <2>1 DEF Save, Sound
<1>3. /\ user' \in [Users -> UserRow] /\ user'[u] = w.row
      /\ \A v \in Users \ {u} : user'[v] = user[v]
  BY <1>1, <1>2 DEF AccountsInv, AccountTypes
<1>4. handed' \in [Numbers -> [role : Roles, secret : Nat]]
  BY <1>1, <1>2, AccountFields DEF AccountsInv, AccountTypes, UserRow
<1>5. ASSUME NEW t \in Servers PROVE save'[t] \in Save /\ Sound(t)'
  <2>1. CASE t = s
    BY <1>1, <2>1, AccountFields DEF MarkStale, Sound
  <2>2. CASE t # s
    <3> DEFINE c == [save[t] EXCEPT !.stale = @ \/ save[t].u = u]
    <3>1. save'[t] = c
      BY <1>1, <2>2, AccountFields DEF MarkStale
    <3>2. /\ c \in Save /\ c.u = save[t].u /\ c.row = save[t].row /\ c.issues = save[t].issues
          /\ c.stale = (save[t].stale \/ save[t].u = u)
          /\ save[t] = NoSave => c = NoSave
      BY MarkedCopy DEF AccountsInv
    <3> HIDE DEF c
    <3>3. Sound(t)
      BY DEF AccountsInv, SavesAreSound
    <3> QED
      BY <1>2, <1>3, <3>1, <3>2, <3>3 DEF Sound
  <2> QED
    BY <2>1, <2>2
<1>6. save' \in [Servers -> Save]
  BY <1>1, <1>5 DEF MarkStale
<1>7. OnePhoneEach'
  BY <1>1, <1>3 DEF Unique, AccountsInv, OnePhoneEach, Exists
<1>8. ASSUME NEW n \in Numbers, handed'[n] # NoCredentials
      PROVE  \E v \in Users : Opens(v, n)'
  <2>1. CASE w.issues /\ n = w.row.phone
    <3>1. handed'[n].role = w.row.role /\ handed'[n].secret = w.row.secret
      BY <1>1, <2>1
    <3> QED
      BY <1>1, <1>2, <1>3, <2>1, <3>1 DEF Sound, Opens, Exists
  <2>2. CASE ~(w.issues /\ n = w.row.phone)
    <3>1. n \notin void /\ handed'[n] = handed[n]
      BY <1>1, <1>8, <2>2
    <3>2. PICK v \in Users : Opens(v, n)
      BY <1>8, <3>1 DEF AccountsInv, CredentialsOpen
    <3>3. CASE v # u
      BY <1>3, <3>1, <3>2, <3>3 DEF Opens, Exists
    <3>4. CASE v = u
      <4>1. user[u].phone = n /\ n = w.row.phone /\ ~w.stale /\ ~w.issues /\ u = w.u
        BY <1>1, <2>2, <3>1, <3>2, <3>4 DEF Opens, Exists, NextUser
      <4>2. w.row.role = user[u].role /\ w.row.secret = user[u].secret
        BY <1>1, <1>2, <4>1 DEF Sound
      <4> QED
        BY <1>2, <1>3, <3>1, <3>2, <3>4, <4>1, <4>2 DEF Opens, Exists
    <3> QED
      BY <3>3, <3>4
  <2> QED
    BY <2>1, <2>2
<1> QED
  BY <1>1, <1>3, <1>4, <1>5, <1>6, <1>7, <1>8
     DEF AccountsInv, AccountTypes, SavesAreSound, CredentialsOpen

\* Deleting a row, or promoting it, marks the copies of it as stale.
LEMMA MarkedKeeps ==
    ASSUME AccountsInv, NEW u \in Users, user'[u].at # "absent",
           \A v \in Users \ {u} : user'[v] = user[v],
           save' = [s \in Servers |-> [save[s] EXCEPT !.stale = @ \/ save[s].u = u]]
    PROVE  save' \in [Servers -> Save] /\ SavesAreSound'
<1>1. ASSUME NEW t \in Servers PROVE save'[t] \in Save /\ Sound(t)'
  <2> DEFINE c == [save[t] EXCEPT !.stale = @ \/ save[t].u = u]
  <2>1. save'[t] = c
    OBVIOUS
  <2>2. /\ c \in Save /\ c.u = save[t].u /\ c.row = save[t].row /\ c.issues = save[t].issues
        /\ c.stale = (save[t].stale \/ save[t].u = u)
        /\ save[t] = NoSave => c = NoSave
    BY MarkedCopy DEF AccountsInv
  <2> HIDE DEF c
  <2>3. Sound(t)
    BY DEF AccountsInv, SavesAreSound
  <2>4. save[t] # NoSave /\ ~c.issues /\ ~c.stale =>
            c.row.role = user'[c.u].role /\ c.row.secret = user'[c.u].secret
    <3> SUFFICES ASSUME save[t] # NoSave, ~c.issues, ~c.stale
                 PROVE  c.row.role = user'[c.u].role /\ c.row.secret = user'[c.u].secret
      OBVIOUS
    <3>1. save[t].u \in Users \ {u}
      BY <2>2, <2>3 DEF Sound
    <3> QED
      BY <2>2, <2>3, <3>1 DEF Sound
  <2>5. save[t] # NoSave /\ c.u \in Users => user'[c.u].at # "absent"
    BY <2>2, <2>3 DEF Sound
  <2> QED
    BY <2>1, <2>2, <2>3, <2>4, <2>5 DEF Sound
<1> QED
  BY <1>1 DEF SavesAreSound

LEMMA DeleteMeKeeps ==
    ASSUME AccountsInv, NEW u \in Users, DeleteMe(u)
    PROVE  AccountsInv'
<1> DEFINE r == [NoUser EXCEPT !.at = "deleted"]
<1>1. r \in UserRow /\ r.at = "deleted"
  BY AccountFields DEF UserRow
<1>2. /\ Exists(u) /\ user' = [user EXCEPT ![u] = r] /\ UNCHANGED secrets
      /\ save' = [s \in Servers |-> [save[s] EXCEPT !.stale = @ \/ save[s].u = u]]
      /\ handed' = [n \in Numbers |-> IF n = user[u].phone THEN NoCredentials ELSE handed[n]]
  BY DEF DeleteMe
<1> HIDE DEF r
<1>3. /\ user' \in [Users -> UserRow] /\ user'[u] = r
      /\ \A v \in Users \ {u} : user'[v] = user[v]
  BY <1>1, <1>2 DEF AccountsInv, AccountTypes
<1>4. save' \in [Servers -> Save] /\ SavesAreSound'
  BY <1>1, <1>2, <1>3, MarkedKeeps
<1>5. handed' \in [Numbers -> [role : Roles, secret : Nat]]
  BY <1>2, AccountFields DEF AccountsInv, AccountTypes
<1>6. OnePhoneEach'
  BY <1>1, <1>3 DEF AccountsInv, OnePhoneEach, Exists
<1>7. CredentialsOpen'
  BY <1>2, <1>3 DEF AccountsInv, CredentialsOpen, Opens, Exists
<1> QED
  BY <1>2, <1>3, <1>4, <1>5, <1>6, <1>7 DEF AccountsInv, AccountTypes

LEMMA PromoteToPartnerKeeps ==
    ASSUME AccountsInv, NEW u \in Users, PromoteToPartner(u)
    PROVE  AccountsInv'
<1> DEFINE n == user[u].phone
           r == [user[u] EXCEPT !.role = "QASSOB"]
<1>1. user[u] \in UserRow /\ Exists(u) /\ n \in Numbers
  BY DEF PromoteToPartner, AccountsInv, AccountTypes, UserRow
<1>2. /\ r \in UserRow /\ r.at = "here" /\ r.role = "QASSOB"
      /\ r.phone = n /\ r.secret = user[u].secret
  BY <1>1 DEF UserRow, Roles, Exists
<1>3. /\ user' = [user EXCEPT ![u] = r] /\ UNCHANGED secrets
      /\ save' = [s \in Servers |-> [save[s] EXCEPT !.stale = @ \/ save[s].u = u]]
      /\ handed' = IF handed[n] = NoCredentials THEN handed ELSE [handed EXCEPT ![n].role = "QASSOB"]
  BY DEF PromoteToPartner
<1> HIDE DEF r
<1>4. /\ user' \in [Users -> UserRow] /\ user'[u] = r
      /\ \A v \in Users \ {u} : user'[v] = user[v]
  BY <1>2, <1>3 DEF AccountsInv, AccountTypes
<1>5. save' \in [Servers -> Save] /\ SavesAreSound'
  BY <1>2, <1>3, <1>4, MarkedKeeps
<1>6. /\ handed' \in [Numbers -> [role : Roles, secret : Nat]]
      /\ \A m \in Numbers \ {n} : handed'[m] = handed[m]
      /\ handed'[n] # NoCredentials => /\ handed[n] # NoCredentials
                                       /\ handed'[n].role = "QASSOB"
                                       /\ handed'[n].secret = handed[n].secret
  BY <1>1, <1>3 DEF AccountsInv, AccountTypes, Roles
<1>7. OnePhoneEach'
  BY <1>1, <1>2, <1>4 DEF AccountsInv, OnePhoneEach, Exists
<1>8. ASSUME NEW m \in Numbers, handed'[m] # NoCredentials
      PROVE  \E v \in Users : Opens(v, m)'
  <2>1. PICK v \in Users : Opens(v, m)
    BY <1>6, <1>8 DEF AccountsInv, CredentialsOpen
  <2>2. CASE m # n
    <3>1. v # u
      BY <2>1, <2>2 DEF Opens
    <3> QED
      BY <1>4, <1>6, <2>1, <2>2, <3>1 DEF Opens, Exists
  <2>3. CASE m = n
    <3>1. v = u
      BY <1>1, <2>1, <2>3, AccountFields DEF AccountsInv, OnePhoneEach, Opens
    <3> QED
      BY <1>2, <1>4, <1>6, <1>8, <2>1, <2>3, <3>1 DEF Opens, Exists, Partners
  <2> QED
    BY <2>2, <2>3
<1> QED
  BY <1>3, <1>4, <1>5, <1>6, <1>7, <1>8 DEF AccountsInv, AccountTypes, CredentialsOpen

LEMMA SaveFailsKeeps ==
    ASSUME AccountsInv, NEW s \in Servers, SaveFails(s)
    PROVE  AccountsInv'
<1>1. /\ save' \in [Servers -> Save] /\ save'[s] = NoSave
      /\ \A t \in Servers \ {s} : save'[t] = save[t]
      /\ UNCHANGED user /\ UNCHANGED secrets /\ UNCHANGED handed
  BY AccountFields DEF SaveFails, AccountsInv, AccountTypes
<1> QED
  BY <1>1 DEF AccountsInv, AccountTypes, OnePhoneEach, SavesAreSound, Sound, CredentialsOpen,
     Opens, Exists

\* For any number of accounts, phones and overlapping requests, the password
\* handed to a partner opens a partner's account, unless its number was moved,
\* deleted, or overwritten by a request that had loaded the row before.
THEOREM CredentialsKeepWorking == ASpec => []HandedCredentialsWork
<1>1. AInit => AccountsInv
  <2> SUFFICES ASSUME AInit PROVE AccountsInv
    OBVIOUS
  <2>1. AccountTypes
    BY AccountFields DEF AInit, AccountTypes
  <2> QED
    BY <2>1, AccountFields DEF AInit, AccountsInv, OnePhoneEach, SavesAreSound, Sound,
       CredentialsOpen, Exists
<1>2. AccountsInv /\ [ANext]_avars => AccountsInv'
  <2> SUFFICES ASSUME AccountsInv, [ANext]_avars PROVE AccountsInv'
    OBVIOUS
  <2>1. CASE UNCHANGED avars
    BY <2>1 DEF avars, AccountsInv, AccountTypes, OnePhoneEach, SavesAreSound, Sound,
       CredentialsOpen, Opens, Exists
  <2>2. CASE ANext
    BY <2>2, RegisterKeeps, LoadKeeps, ProvisionCourierNewKeeps, SaveRowKeeps, DeleteMeKeeps,
       PromoteToPartnerKeeps, SaveFailsKeeps DEF ANext
  <2> QED
    BY <2>1, <2>2
<1>3. AccountsInv => HandedCredentialsWork
  BY DEF AccountsInv, CredentialsOpen, Opens, HandedCredentialsWork, PasswordLogin, Exists
<1> QED
  BY <1>1, <1>2, <1>3, PTL DEF ASpec

---------------------------------------------------------------------------
(* Profiles *)

ProfileRow == [here : BOOLEAN, verified : BOOLEAN, open : BOOLEAN]
Fields == {"verified", "open"}
Decisions == [verified : BOOLEAN, open : BOOLEAN]
Review == [stage : {"none", "saved", "found", "flip", "commit"}, form : BOOLEAN, kind : Kinds,
           ok : BOOLEAN]

\* A row is never unmade: nobody saves a copy from before it was there.
ProfilesInv ==
    /\ profile \in ProfileRow
    /\ review \in [Admins -> Review]
    /\ patch \in [Owners -> [row : ProfileRow, posted : SUBSET Fields]]
    /\ due \in Decisions
    /\ \A o \in Owners : patch[o] # NoCopy => profile.here /\ patch[o].row.here

\* A step that undoes no decision but by an overlap.
StepIsSound == \A f \in Fields : Undone(f)' /\ ~Undone(f) => Overlaps(f)

\* A record whose fields are replaced one by one is a record.
LEMMA ReplacedProfile ==
    ASSUME NEW p \in ProfileRow, NEW posted \in SUBSET Fields, NEW value \in BOOLEAN
    PROVE  LET r == [f \in DOMAIN p |-> IF f \in posted THEN value ELSE p[f]] IN
           r \in ProfileRow /\ r.here = p.here
BY DEF ProfileRow, Fields

LEMMA ReplacedDue ==
    ASSUME NEW d \in Decisions, NEW q \in ProfileRow, NEW posted \in SUBSET Fields
    PROVE  LET r == [f \in DOMAIN d |-> IF f \in posted THEN q[f] ELSE d[f]] IN
           /\ r \in Decisions
           /\ \A f \in Fields : r[f] = IF f \in posted THEN q[f] ELSE d[f]
BY DEF ProfileRow, Fields, Decisions

\* A signal is waiting for its update after a step just if it was before it, when
\* the step concerns no review or one of a change form.
LEMMA PendingStays ==
    ASSUME \A a \in Admins : (review'[a].stage = "flip" /\ ~review'[a].form)
                                 <=> (review[a].stage = "flip" /\ ~review[a].form)
    PROVE  Pending' <=> Pending
BY DEF Pending

LEMMA CreatedKeeps ==
    ASSUME ProfilesInv, NEW v \in BOOLEAN, Created(v)
    PROVE  ProfilesInv' /\ StepIsSound
<1>1. /\ ~profile.here /\ profile' = [here |-> TRUE, verified |-> v, open |-> TRUE]
      /\ due' = [verified |-> v, open |-> TRUE]
      /\ UNCHANGED review /\ UNCHANGED patch
  BY DEF Created
<1>2. ProfilesInv'
  BY <1>1 DEF ProfilesInv, ProfileRow, Decisions
<1>3. profile'.verified = due'.verified /\ profile'.open = due'.open
  BY <1>1
<1> QED
  BY <1>2, <1>3 DEF StepIsSound, Undone, Fields

\* An update of verified alone.
LEMMA MarksKeeps ==
    ASSUME ProfilesInv, NEW v \in BOOLEAN, Marks(v)
    PROVE  ProfilesInv' /\ StepIsSound
<1>1. /\ profile' \in ProfileRow /\ profile'.here = profile.here
      /\ profile'.verified = v /\ profile'.open = profile.open
      /\ due' \in Decisions /\ due'.verified = v /\ due'.open = due.open
      /\ UNCHANGED review /\ UNCHANGED patch
  BY DEF Marks, ProfilesInv, ProfileRow, Decisions
<1>2. ProfilesInv'
  BY <1>1 DEF ProfilesInv
<1> QED
  BY <1>1, <1>2 DEF StepIsSound, Undone, Fields

LEMMA ToggleKeeps ==
    ASSUME ProfilesInv, NEW open \in BOOLEAN, Toggle(open)
    PROVE  ProfilesInv' /\ StepIsSound
<1>1. /\ profile' \in ProfileRow /\ profile'.here = profile.here
      /\ profile'.verified = profile.verified /\ profile'.open = open
      /\ due' \in Decisions /\ due'.verified = due.verified /\ due'.open = open
      /\ UNCHANGED review /\ UNCHANGED patch
  BY DEF Toggle, ProfilesInv, ProfileRow, Decisions
<1>2. ProfilesInv'
  BY <1>1 DEF ProfilesInv
<1>3. Pending' <=> Pending
  BY <1>1 DEF Pending
<1> QED
  BY <1>1, <1>2, <1>3 DEF StepIsSound, Undone, Fields

LEMMA PatchLoadKeeps ==
    ASSUME ProfilesInv, NEW o \in Owners, NEW posted \in Posts, NEW value \in BOOLEAN,
           PatchLoad(o, posted, value)
    PROVE  ProfilesInv' /\ StepIsSound
<1> DEFINE r == [f \in DOMAIN profile |-> IF f \in posted THEN value ELSE profile[f]]
<1>1. posted \in SUBSET Fields
  BY DEF Posts, Fields
<1>2. r \in ProfileRow /\ r.here = profile.here
  BY <1>1, ReplacedProfile DEF ProfilesInv
<1>3. /\ patch' = [patch EXCEPT ![o].posted = posted, ![o].row = r]
      /\ profile.here /\ profile' = profile /\ review' = review /\ due' = due
  BY DEF PatchLoad
<1> HIDE DEF r
<1>4. /\ patch' \in [Owners -> [row : ProfileRow, posted : SUBSET Fields]]
      /\ patch'[o].row = r
      /\ \A p \in Owners \ {o} : patch'[p] = patch[p]
  BY <1>1, <1>2, <1>3 DEF ProfilesInv
<1>5. ProfilesInv'
  BY <1>2, <1>3, <1>4 DEF ProfilesInv
<1>6. Pending' <=> Pending
  BY <1>3 DEF Pending
<1> QED
  BY <1>3, <1>5, <1>6 DEF StepIsSound, Undone, Fields

\* A PATCH saves all of the row: what it posted is decided by it, what it did not
\* is left alone or it is an overlap.
LEMMA PatchSaveKeeps ==
    ASSUME ProfilesInv, NEW o \in Owners, PatchSave(o)
    PROVE  ProfilesInv' /\ StepIsSound
<1> DEFINE r == patch[o].row
           posted == patch[o].posted
<1>1. r \in ProfileRow /\ posted \in SUBSET Fields /\ profile \in ProfileRow /\ due \in Decisions
  BY DEF ProfilesInv
<1>2. /\ patch[o] # NoCopy /\ profile' = r /\ patch' = [patch EXCEPT ![o] = NoCopy]
      /\ due' = [f \in DOMAIN due |-> IF f \in posted THEN r[f] ELSE due[f]]
      /\ review' = review
  BY DEF PatchSave
<1>3. profile.here /\ r.here
  BY <1>2 DEF ProfilesInv
<1>4. /\ due' \in Decisions
      /\ \A f \in Fields : due'[f] = IF f \in posted THEN r[f] ELSE due[f]
  BY <1>1, <1>2, ReplacedDue
<1>5. /\ patch' \in [Owners -> [row : ProfileRow, posted : SUBSET Fields]]
      /\ patch'[o] = NoCopy /\ \A p \in Owners \ {o} : patch'[p] = patch[p]
  BY <1>2 DEF ProfilesInv, NoCopy, NoProfile, ProfileRow
<1>6. ProfilesInv'
  BY <1>1, <1>2, <1>3, <1>4, <1>5 DEF ProfilesInv
<1>7. Pending' <=> Pending
  BY <1>2 DEF Pending
<1>8. ASSUME NEW f \in Fields, Undone(f)', ~Undone(f)
      PROVE  f \notin posted /\ r[f] # profile[f]
  <2>1. profile'[f] # due'[f]
    BY <1>8 DEF Undone
  <2>2. f \notin posted /\ due'[f] = due[f]
    BY <1>2, <1>4, <2>1
  <2>3. CASE r[f] = profile[f]
    <3>1. due'.verified = due.verified \/ f # "verified"
      BY <2>2
    <3> QED
      BY <1>2, <1>3, <1>7, <1>8, <2>2, <2>3, <3>1 DEF Undone
  <2> QED
    BY <2>2, <2>3
<1> QED
  BY <1>6, <1>8 DEF StepIsSound, Overlaps

\* The steps of a review that write neither the row nor the decisions: they change
\* the entry of one administrator, and leave no pending signal or one more.
LEMMA ReviewsAlone ==
    ASSUME ProfilesInv, UNCHANGED profile, UNCHANGED patch, UNCHANGED due,
           review' \in [Admins -> Review],
           \A a \in Admins : (review'[a].stage = "flip" /\ ~review'[a].form)
                                 <=> (review[a].stage = "flip" /\ ~review[a].form)
    PROVE  ProfilesInv' /\ StepIsSound
<1>1. ProfilesInv'
  BY DEF ProfilesInv
<1>2. Pending' <=> Pending
  BY PendingStays
<1> QED
  BY <1>1, <1>2 DEF StepIsSound, Undone

LEMMA NoReviewFields ==
    NoReview \in Review /\ NoReview.stage = "none" /\ NoReview.form = FALSE
BY DEF NoReview, Review, Kinds

\* Replacing the entry of one administrator.
LEMMA ReviewReplaced ==
    ASSUME ProfilesInv, NEW a \in Admins, NEW r \in Review, review' = [review EXCEPT ![a] = r]
    PROVE  /\ review' \in [Admins -> Review] /\ review'[a] = r
           /\ \A b \in Admins : b # a => review'[b] = review[b]
BY DEF ProfilesInv

LEMMA SignalGoesOnEffect ==
    ASSUME ProfilesInv, NEW a \in Admins,
           NEW stage \in {"none", "saved", "found", "flip", "commit"}, SignalGoesOn(a, stage)
    PROVE  /\ review' \in [Admins -> Review] /\ review'[a].stage = stage
           /\ review'[a].form = review[a].form
           /\ \A b \in Admins : b # a => review'[b] = review[b]
BY DEF ProfilesInv, SignalGoesOn, Review

LEMMA SignalEndsEffect ==
    ASSUME ProfilesInv, NEW a \in Admins, SignalEnds(a)
    PROVE  /\ review' \in [Admins -> Review] /\ review'[a].stage # "flip"
           /\ \A b \in Admins : b # a => review'[b] = review[b]
<1>1. CASE review[a].form
  BY <1>1, SignalGoesOnEffect DEF SignalEnds
<1>2. CASE ~review[a].form
  BY <1>2, NoReviewFields, ReviewReplaced DEF SignalEnds
<1> QED
  BY <1>1, <1>2

\* A review begins: the action's, of one more approved document, or a change form's.
LEMMA SavesKeeps ==
    ASSUME ProfilesInv, NEW a \in Admins, NEW k \in Kinds, NEW ok \in BOOLEAN,
           MarkApproved(a, k) \/ FormSaves(a, k, ok)
    PROVE  ProfilesInv' /\ StepIsSound
<1>1. /\ review[a] = NoReview
      /\ UNCHANGED profile /\ UNCHANGED patch /\ UNCHANGED due
  BY DEF MarkApproved, FormSaves
<1>2. PICK r \in Review : review' = [review EXCEPT ![a] = r] /\ r.stage # "flip"
  <2>1. CASE MarkApproved(a, k)
    <3> DEFINE r == [stage |-> "saved", form |-> FALSE, kind |-> k, ok |-> TRUE]
    <3>1. r \in Review /\ r.stage # "flip" /\ review' = [review EXCEPT ![a] = r]
      BY <2>1 DEF MarkApproved, Review
    <3> QED
      BY <3>1
  <2>2. CASE FormSaves(a, k, ok)
    <3> DEFINE r == [stage |-> IF ok THEN "saved" ELSE "commit", form |-> TRUE, kind |-> k, ok |-> ok]
    <3>1. r \in Review /\ r.stage # "flip" /\ review' = [review EXCEPT ![a] = r]
      BY <2>2 DEF FormSaves, Review
    <3> QED
      BY <3>1
  <2> QED
    BY <2>1, <2>2
<1> QED
  BY <1>1, <1>2, NoReviewFields, ReviewReplaced, ReviewsAlone

LEMMA SignalFindsKeeps ==
    ASSUME ProfilesInv, NEW a \in Admins, SignalFinds(a)
    PROVE  ProfilesInv' /\ StepIsSound
<1>1. /\ review[a].stage = "saved"
      /\ UNCHANGED profile /\ UNCHANGED patch /\ UNCHANGED due
  BY DEF SignalFinds
<1>2. /\ review' \in [Admins -> Review] /\ review'[a].stage # "flip"
      /\ \A b \in Admins : b # a => review'[b] = review[b]
  BY SignalGoesOnEffect, SignalEndsEffect DEF SignalFinds
<1> QED
  BY <1>1, <1>2, ReviewsAlone

\* The action's signal decides, and what it has decided is so or pending.
LEMMA SignalReadsKeeps ==
    ASSUME ProfilesInv, NEW a \in Admins, SignalReads(a)
    PROVE  ProfilesInv' /\ StepIsSound
<1>1. /\ review[a].stage = "found" /\ UNCHANGED profile /\ UNCHANGED patch
  BY DEF SignalReads
<1>2. /\ due' \in Decisions /\ due'.open = due.open
      /\ due'.verified = (due.verified \/ (profile.here /\ ~review[a].form))
  <2>1. /\ due' = [due EXCEPT !.verified = @ \/ (profile.here /\ ~review[a].form)]
        /\ profile.here \in BOOLEAN /\ review[a].form \in BOOLEAN
    BY DEF SignalReads, ProfilesInv, ProfileRow, Review
  <2> QED
    BY <2>1 DEF ProfilesInv, Decisions
<1>3. /\ review' \in [Admins -> Review]
      /\ \A b \in Admins : b # a => review'[b] = review[b]
      /\ profile.here /\ ~profile.verified =>
             review'[a].stage = "flip" /\ review'[a].form = review[a].form
      /\ ~(profile.here /\ ~profile.verified) => review'[a].stage # "flip"
  BY SignalGoesOnEffect, SignalEndsEffect DEF SignalReads
<1>4. ProfilesInv'
  BY <1>1, <1>2, <1>3 DEF ProfilesInv
<1>5. Pending => Pending'
  BY <1>1, <1>3 DEF Pending
<1>6. profile.here /\ ~profile.verified /\ ~review[a].form => Pending'
  BY <1>3 DEF Pending
<1>7. profile.verified \in BOOLEAN /\ due.verified \in BOOLEAN /\ profile.here \in BOOLEAN
  BY DEF ProfilesInv, ProfileRow, Decisions
<1>8. Undone("verified")' => Undone("verified")
  <2>1. CASE review[a].form \/ ~profile.here
    BY <1>1, <1>2, <1>5, <1>7, <2>1 DEF Undone
  <2>2. CASE ~review[a].form /\ profile.here
    BY <1>1, <1>2, <1>6, <1>7, <2>2 DEF Undone
  <2> QED
    BY <2>1, <2>2
<1>9. Undone("open")' => Undone("open")
  BY <1>1, <1>2 DEF Undone
<1> QED
  BY <1>4, <1>8, <1>9 DEF StepIsSound, Fields

LEMMA SignalFlipsKeeps ==
    ASSUME ProfilesInv, NEW a \in Admins, SignalFlips(a)
    PROVE  ProfilesInv' /\ StepIsSound
<1>1. /\ profile' = [profile EXCEPT !.verified = TRUE]
      /\ review' = [review EXCEPT ![a] = NoReview]
      /\ UNCHANGED patch /\ UNCHANGED due
  BY DEF SignalFlips
<1>2. /\ profile' \in ProfileRow /\ profile'.here = profile.here
      /\ profile'.verified = TRUE /\ profile'.open = profile.open
  BY <1>1 DEF ProfilesInv, ProfileRow
<1>3. ProfilesInv'
  BY <1>1, <1>2, NoReviewFields, ReviewReplaced DEF ProfilesInv
<1>4. Undone("verified")' => ~due.verified
  BY <1>1, <1>2 DEF Undone, ProfilesInv, Decisions
<1>5. Undone("open")' => Undone("open")
  BY <1>1, <1>2 DEF Undone
<1> QED
  BY <1>3, <1>4, <1>5 DEF StepIsSound, Overlaps, Fields

\* A change form that commits what its queries would find again decides and sets
\* the flag at once.
LEMMA FormCommitsKeeps ==
    ASSUME ProfilesInv, NEW a \in Admins, FormCommits(a)
    PROVE  ProfilesInv' /\ StepIsSound
<1> DEFINE flips == review[a].stage = "flip"
           complete == review[a].ok /\ Complete(Seen(a)) /\ profile.here
<1>1. /\ review[a].form /\ profile' = [profile EXCEPT !.verified = @ \/ flips]
      /\ due' = [due EXCEPT !.verified = @ \/ complete]
      /\ review' = [review EXCEPT ![a] = NoReview] /\ patch' = patch
  BY DEF FormCommits, Complete
<1>2. flips \in BOOLEAN /\ complete \in BOOLEAN /\ (Missed(a) <=> flips # (complete /\ ~profile.verified))
  BY DEF Complete, Missed, ProfilesInv, ProfileRow, Review
<1> HIDE DEF flips, complete
<1>3. /\ profile' \in ProfileRow /\ profile'.here = profile.here
      /\ profile'.verified = (profile.verified \/ flips) /\ profile'.open = profile.open
      /\ due' \in Decisions /\ due'.open = due.open
      /\ due'.verified = (due.verified \/ complete)
      /\ profile.verified \in BOOLEAN /\ due.verified \in BOOLEAN
  BY <1>1, <1>2 DEF ProfilesInv, ProfileRow, Decisions
<1>4. ProfilesInv'
  BY <1>1, <1>3, NoReviewFields, ReviewReplaced DEF ProfilesInv
<1>5. Pending' <=> Pending
  BY <1>1, NoReviewFields, ReviewReplaced, PendingStays
<1>6. Undone("verified")' /\ ~Undone("verified") => Missed(a)
  BY <1>2, <1>3, <1>5 DEF Undone
<1>7. Undone("open")' => Undone("open")
  BY <1>3 DEF Undone
<1> QED
  BY <1>4, <1>6, <1>7 DEF StepIsSound, Overlaps, Fields

LEMMA ProfilesBegin == PrInit => ProfilesInv
BY NoReviewFields DEF PrInit, ProfilesInv, NoCopy, NoProfile, ProfileRow, Decisions

LEMMA ProfilesStep ==
    ASSUME ProfilesInv, [PrNext]_pvars
    PROVE  ProfilesInv' /\ (StepIsSound \/ UNCHANGED pvars)
<1>1. CASE OpenApp
  BY <1>1, CreatedKeeps DEF OpenApp
<1>2. CASE EnsureProfile
  BY <1>2, CreatedKeeps, MarksKeeps DEF EnsureProfile
<1>3. ASSUME NEW b \in BOOLEAN, Toggle(b) \/ AdminMarks(b) PROVE ProfilesInv' /\ StepIsSound
  BY <1>3, ToggleKeeps, MarksKeeps DEF AdminMarks
<1>4. ASSUME NEW o \in Owners, PatchSave(o) PROVE ProfilesInv' /\ StepIsSound
  BY <1>4, PatchSaveKeeps
<1>5. ASSUME NEW o \in Owners, NEW posted \in Posts, NEW b \in BOOLEAN, PatchLoad(o, posted, b)
      PROVE  ProfilesInv' /\ StepIsSound
  BY <1>5, PatchLoadKeeps
<1>6. ASSUME NEW k \in Kinds, Upload(k) \/ MarkRejected(k) PROVE ProfilesInv' /\ StepIsSound
  <2>1. /\ profile' = profile /\ review' = review /\ patch' = patch /\ due' = due
        /\ review \in [Admins -> Review]
    BY <1>6 DEF Upload, MarkRejected, ProfilesInv
  <2> QED
    BY <2>1, ReviewsAlone
<1>7. ASSUME NEW a \in Admins,
             SignalFinds(a) \/ SignalReads(a) \/ SignalFlips(a) \/ FormCommits(a)
      PROVE  ProfilesInv' /\ StepIsSound
  BY <1>7, SignalFindsKeeps, SignalReadsKeeps, SignalFlipsKeeps, FormCommitsKeeps
<1>8. ASSUME NEW a \in Admins, NEW k \in Kinds,
             MarkApproved(a, k) \/ \E ok \in BOOLEAN : FormSaves(a, k, ok)
      PROVE  ProfilesInv' /\ StepIsSound
  BY <1>8, SavesKeeps
<1>9. CASE UNCHANGED pvars
  BY <1>9 DEF pvars, ProfilesInv
<1> QED
  BY <1>1, <1>2, <1>3, <1>4, <1>5, <1>6, <1>7, <1>8, <1>9 DEF PrNext

\* OnlyOverlapsUndoDecisions: for any number of administrators and of PATCH
\* requests, a decision on the profile is undone by the three overlaps only.
THEOREM DecisionsAreUndoneOnlySo == PrSpec => OnlyOverlapsUndoDecisions
<1>1. ProfilesInv /\ [PrNext]_pvars => ProfilesInv'
  BY ProfilesStep
<1>2. ProfilesInv /\ [PrNext]_pvars =>
          [\A f \in {"verified", "open"} : Undone(f)' /\ ~Undone(f) => Overlaps(f)]_pvars
  BY ProfilesStep DEF StepIsSound, Fields
<1> QED
  BY <1>1, <1>2, ProfilesBegin, PTL DEF PrSpec, OnlyOverlapsUndoDecisions
=============================================================================
