------------------------------ MODULE Telegram ------------------------------
(***************************************************************************)
(* Signing in through the Telegram bot (backend/apps/telegram_auth): the   *)
(* app starts a session, the user shares a contact with the bot and is     *)
(* sent a code, the app posts the code.                                    *)
(*                                                                         *)
(* Every query here filters by phone, so one instance is the life of one   *)
(* phone number.  What normalize_uz_phone refuses, what a stranger's       *)
(* contact or a chat's /start does (answer with the keyboard) changes no   *)
(* column another step reads.  No handler opens a transaction: each is two *)
(* steps, between which others run.                                        *)
(*                                                                         *)
(* A code is its number in the order in which the contacts that led to the *)
(* codes were read, so that a larger code has the later code_sent_at.      *)
(***************************************************************************)
EXTENDS Integers, FiniteSets

CONSTANTS
    MaxRows,                \* BOUND: sessions ever started for the phone
    MaxCodes,               \* BOUND: codes ever asked for
    MaxTime,                \* BOUND: the last moment
    Handlers,               \* BOUND: requests being served at the same time
    CODE_TTL,               \* a code can be used for less than this
    RESEND_COOLDOWN,        \* the least age of a row's code before the next
    SESSION_TTL,            \* a session may be given a code up to this age
    HOUR,                   \* the window of MAX_SENDS_PER_HOUR
    MAX_VERIFY_ATTEMPTS,
    MAX_SENDS_PER_HOUR

Rows == 1 .. MaxRows
Codes == 1 .. MaxCodes
Time == 0 .. MaxTime

ASSUME BoundsAssumption == {MaxRows, MaxCodes, MaxTime} \subseteq Nat
ASSUME LimitsAssumption ==
    {CODE_TTL, RESEND_COOLDOWN, SESSION_TTL, HOUR, MAX_VERIFY_ATTEMPTS, MAX_SENDS_PER_HOUR}
        \subseteq Nat \ {0}

VARIABLES
    row,            \* row[v]: a TelegramVerification row
    sent_at,        \* sent_at[k]: the `now` of the request that made code k
    clock,
    req,            \* req[h]: what handler h has read and not yet written
    accepted,       \* history: the codes that were answered with a sign-in
    entered,        \* history: something was compared with the newest code asked for
    crossed         \* history: a verification was under way, or done, when it was written

tvars == <<row, sent_at, clock, req, accepted, entered, crossed>>

\* The status of a row; ABSENT before its insertion, GONE after its deletion.
Status == {"AWAITING_CONTACT", "CODE_SENT", "VERIFIED"}

Row == [status : Status \cup {"ABSENT", "GONE"}, created_at : Time,
        code : Codes \cup {0}, attempts : 0 .. MAX_VERIFY_ATTEMPTS, consumed : BOOLEAN]

NewRow == [status |-> "ABSENT", created_at |-> 0, code |-> 0, attempts |-> 0,
           consumed |-> FALSE]

Idle == [kind |-> "idle", row |-> 0, code |-> 0, attempts |-> 0, right |-> FALSE]

Request ==
    {Idle}
    \cup [kind : {"start"}, row : {0}, code : {0}, attempts : {0}, right : {FALSE}]
    \cup [kind : {"contact"}, row : Rows, code : Codes, attempts : {0}, right : {FALSE}]
    \cup [kind : {"verify"}, row : Rows, code : Codes,
          attempts : 0 .. MAX_VERIFY_ATTEMPTS - 1, right : BOOLEAN]

Present(v) == row[v].status \in Status

Holding(h, r) == req[h] = Idle /\ req' = [req EXCEPT ![h] = r]

End(h) == req' = [req EXCEPT ![h] = Idle]

---------------------------------------------------------------------------
(* TelegramStartView *)

\* Mutant of Swept: every unverified session of the phone is swept.
Swept_Blanket(v) == Present(v) /\ row[v].status # "VERIFIED"

\* The sessions a new one sweeps away: older than SESSION_TTL, not verified.
Swept(v) ==
    /\ Present(v) /\ row[v].status # "VERIFIED"
    /\ clock - row[v].created_at > SESSION_TTL

\* The stale sessions are deleted ...
StartSweeps(h) ==
    /\ \E new \in Rows : row[new].status = "ABSENT"
    /\ row' = [v \in Rows |-> [row[v] EXCEPT !.status = IF Swept(v) THEN "GONE" ELSE @]]
    /\ Holding(h, [Idle EXCEPT !.kind = "start"])
    /\ UNCHANGED <<sent_at, clock, accepted, entered, crossed>>

\* ... and the new one is created.
StartCreates(h) ==
    /\ req[h].kind = "start"
    /\ \E new \in Rows :
           /\ row[new].status = "ABSENT" /\ \A v \in 1 .. new - 1 : row[v].status # "ABSENT"
           /\ row' = [row EXCEPT ![new] = [NewRow EXCEPT !.status = "AWAITING_CONTACT",
                                                        !.created_at = clock]]
    /\ End(h)
    /\ UNCHANGED <<sent_at, clock, accepted, entered, crossed>>

---------------------------------------------------------------------------
(* TelegramWebhookView._handle_contact, for a contact that is the sender's own *)

InFlight(v) ==
    /\ row[v].status \in {"AWAITING_CONTACT", "CODE_SENT"}
    /\ clock - row[v].created_at <= SESSION_TTL

\* Rows are numbered as they are inserted, so the newest is the largest.
NewestInFlight(v) == InFlight(v) /\ \A w \in Rows : InFlight(w) => w <= v

Sent(v) == Present(v) /\ row[v].code # 0

RecentSends == {v \in Rows : Sent(v) /\ clock - sent_at[row[v].code] <= HOUR}

OutOfCooldown(v) ==
    row[v].code # 0 => clock - sent_at[row[v].code] >= RESEND_COOLDOWN

\* The codes asked for so far are 1 .. asked.
Unused(k) == sent_at[k] = -1 /\ \A j \in 1 .. k - 1 : sent_at[j] # -1

ContactRead(h, v) ==
    /\ NewestInFlight(v)
    /\ Cardinality(RecentSends) < MAX_SENDS_PER_HOUR
    /\ OutOfCooldown(v)
    /\ \E k \in Codes :
           /\ Unused(k)
           /\ sent_at' = [sent_at EXCEPT ![k] = clock]
           /\ Holding(h, [Idle EXCEPT !.kind = "contact", !.row = v, !.code = k])
    /\ entered' = FALSE /\ crossed' = FALSE
    /\ UNCHANGED <<row, clock, accepted>>

\* The code asked for last; no other request is given a later one.
Newest(k) == k \in Codes /\ sent_at[k] # -1 /\ \A j \in Codes : sent_at[j] # -1 => j <= k

Verifying(v) == \E h \in Handlers : req[h].kind = "verify" /\ req[h].row = v

\* History: what a contact writes on a row that a verification has consumed, or
\* has read and not yet written.
Crosses(r) ==
    /\ crossed' = (crossed \/ (Newest(r.code) /\ (row[r.row].consumed \/ Verifying(r.row))))
    /\ UNCHANGED entered

\* Mutant of ContactWrite: the attempts made on the row's last code stay.
ContactWrite_KeepsAttempts(h) ==
    LET r == req[h] IN
    /\ r.kind = "contact"
    /\ row' = IF Present(r.row)
              THEN [row EXCEPT ![r.row].status = "CODE_SENT", ![r.row].code = r.code]
              ELSE row
    /\ End(h)
    /\ Crosses(r)
    /\ UNCHANGED <<sent_at, clock, accepted>>

\* save(update_fields=...) without consumed_at.  Of a row deleted meanwhile
\* the save fails, the webhook answers 200 all the same, and no code is sent.
ContactWrite(h) ==
    LET r == req[h] IN
    /\ r.kind = "contact"
    /\ row' = IF Present(r.row)
              THEN [row EXCEPT ![r.row].status = "CODE_SENT",
                               ![r.row].code = r.code,
                               ![r.row].attempts = 0]
              ELSE row
    /\ End(h)
    /\ Crosses(r)
    /\ UNCHANGED <<sent_at, clock, accepted>>

---------------------------------------------------------------------------
(* TelegramVerifyView *)

\* Mutant of Live: a verified row is not excluded.
Live_Reusable(v) ==
    Sent(v) /\ clock < sent_at[row[v].code] + CODE_TTL

\* CODE_SENT, not consumed, not expired.
Live(v) ==
    /\ row[v].status = "CODE_SENT"
    /\ ~row[v].consumed
    /\ clock < sent_at[row[v].code] + CODE_TTL

\* The row the code is compared with, whatever session it was posted for.
Candidate(v) ==
    Live(v) /\ \A w \in Rows : Live(w) => row[w].code <= row[v].code

Acceptable(v) == Candidate(v) /\ row[v].attempts < MAX_VERIFY_ATTEMPTS

\* A code is posted for some session of the phone, and is right or wrong.
VerifyRead(h, v, right) ==
    /\ \E session \in Rows : Present(session)
    /\ Acceptable(v)
    /\ Holding(h, [kind |-> "verify", row |-> v, code |-> row[v].code,
                 attempts |-> row[v].attempts, right |-> right])
    /\ entered' = (entered \/ Newest(row[v].code))
    /\ UNCHANGED <<row, sent_at, clock, accepted, crossed>>

\* A wrong code costs an attempt, a right one consumes the row: two columns
\* each, from the copy.  The answer then depends on the account of the phone.
VerifyWrite(h) ==
    LET r == req[h] IN
    /\ r.kind = "verify"
    /\ \/ /\ Present(r.row) /\ r.right
          /\ row' = [row EXCEPT ![r.row].status = "VERIFIED", ![r.row].consumed = TRUE]
          /\ accepted' = accepted \cup {r.code}
       \/ /\ Present(r.row) /\ ~r.right
          /\ row' = [row EXCEPT ![r.row].attempts = r.attempts + 1]
          /\ UNCHANGED accepted
       \/ ~Present(r.row) /\ UNCHANGED <<row, accepted>>        \* the save fails
    /\ End(h)
    /\ UNCHANGED <<sent_at, clock, entered, crossed>>

---------------------------------------------------------------------------

Tick ==
    /\ clock < MaxTime /\ clock' = clock + 1
    /\ UNCHANGED <<row, sent_at, req, accepted, entered, crossed>>

TInit ==
    /\ row = [v \in Rows |-> NewRow]
    /\ sent_at = [k \in Codes |-> -1]
    /\ clock = 0
    /\ req = [h \in Handlers |-> Idle]
    /\ accepted = {}
    /\ entered = FALSE /\ crossed = FALSE

TNext ==
    \/ Tick
    \/ \E h \in Handlers :
           \/ StartSweeps(h)
           \/ StartCreates(h)
           \/ \E v \in Rows : ContactRead(h, v)
           \/ ContactWrite(h)
           \/ \E v \in Rows, right \in BOOLEAN : VerifyRead(h, v, right)
           \/ VerifyWrite(h)

TSpec == TInit /\ [][TNext]_tvars

---------------------------------------------------------------------------
(* Properties *)

\* Types: no row counts more than MAX_VERIFY_ATTEMPTS wrong codes, and a code
\* is on a row only after it was asked for.
TTypeOK ==
    /\ row \in [Rows -> Row]
    /\ sent_at \in [Codes -> Time \cup {-1}]
    /\ clock \in Time
    /\ req \in [Handlers -> Request]
    /\ accepted \subseteq Codes
    /\ entered \in BOOLEAN /\ crossed \in BOOLEAN
    /\ \A v \in Rows : row[v].code # 0 => sent_at[row[v].code] # -1

\* "Single-use": a code that has signed someone in is never compared with
\* again.  Neither a resend on the same row nor a late write of a request that
\* saw the row unconsumed brings it back; a request can be accepted on a spent
\* code only if it had read the row before.
SpentCodesStaySpent ==
    \A v \in Rows : Acceptable(v) => row[v].code \notin accepted

Supersedes(r, v) == r.row = v \/ r.code > row[v].code

LostForAReason(v) ==
    \/ clock' >= sent_at[row[v].code] + CODE_TTL
    \/ \E h \in Handlers : req[h].row = v /\ VerifyWrite(h)
    \/ \E h \in Handlers : Supersedes(req[h], v) /\ ContactWrite(h)
    \/ row'[v].status = "GONE" /\ clock - row[v].created_at > SESSION_TTL

\* A code that can be used stops being usable for one of five reasons only: it
\* is used, wrong codes used its attempts up, its time is over, another code
\* was sent, or its session, past SESSION_TTL, was swept by a new one.  In
\* particular starting another session does not take away a code just sent,
\* as long as the session it was sent for is in time.
LiveCodesAreLostForAReason ==
    [][\A v \in Rows : Acceptable(v) /\ ~Acceptable(v)' => LostForAReason(v)]_tvars

\* The last code asked for, on its row, in time, and not yet compared with anything.
Unentered(v) ==
    Sent(v) /\ Newest(row[v].code) /\ ~entered /\ clock < sent_at[row[v].code] + CODE_TTL

\* The last code sent waits for its owner with all its attempts, whatever else is
\* requested for the phone, from its contact until something is entered for it,
\* its time is over or its session is swept.  Only a verification of the same row
\* that overlapped its contact, or one done when the contact was written, can spoil it.
FreshCodesWork ==
    \A v \in Rows : Unentered(v) => crossed \/ (Acceptable(v) /\ row[v].attempts = 0)

\* "wrong verify attempts against code_hash" (models.py): a code with which
\* nothing was compared has no attempts against it.
AttemptsAreAgainstTheCode == \A v \in Rows : Unentered(v) => row[v].attempts = 0
=============================================================================
