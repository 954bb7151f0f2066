------------------------------ MODULE Profiles ------------------------------
(***************************************************************************)
(* The profile of one qassob or catalog operator, and the identity         *)
(* documents that verify it (backend/apps/qassobs, suppliers, accounts/kyc *)
(* and provisioning).                                                      *)
(*                                                                         *)
(* The flag is_verified has five writers: the creation of the row, which   *)
(* happens in several places with different defaults, the signal that sees *)
(* the last required document approved, the administrators' own actions, a *)
(* new provisioning of a catalog operator, and any PATCH, which saves the  *)
(* whole row it loaded.  is_open_now is written by a toggle and by PATCH.  *)
(*                                                                         *)
(* The change form of Django Admin is a transaction, whose queries see its *)
(* own document and what others have committed; its action on the list,    *)
(* and everything in the API, commits each statement.                      *)
(***************************************************************************)
EXTENDS Integers

CONSTANTS
    Admins,         \* BOUND: documents being reviewed at the same time
    Owners          \* BOUND: PATCH requests being served at the same time

Kinds == {"PASSPORT", "BUSINESS_LICENSE"}     \* REQUIRED_KYC_KINDS

VARIABLES
    role,       \* QASSOB or SUPPLIER
    profile,    \* the profile row
    doc,        \* doc[k]: the document of kind k
    review,     \* review[a]: the review administrator a has begun
    patch,      \* patch[o]: the row PATCH o has loaded and edited
    due         \* history: the last decisions on verified and open

pvars == <<role, profile, doc, review, patch, due>>

NoProfile == [here |-> FALSE, verified |-> FALSE, open |-> FALSE]

\* stage: the document is saved, its signal has found both approved, it has found
\* the profile unverified too, or a change form has nothing left but to commit.
NoReview == [stage |-> "none", form |-> FALSE, kind |-> "PASSPORT", ok |-> FALSE]

NoCopy == [row |-> NoProfile, posted |-> {}]

PrInit ==
    /\ role \in {"QASSOB", "SUPPLIER"}
    /\ profile = NoProfile
    /\ doc = [k \in Kinds |-> "none"]
    /\ review = [a \in Admins |-> NoReview]
    /\ patch = [o \in Owners |-> NoCopy]
    /\ due = [verified |-> FALSE, open |-> TRUE]

---------------------------------------------------------------------------
(* The row *)

Created(v) ==
    /\ ~profile.here
    /\ profile' = [here |-> TRUE, verified |-> v, open |-> TRUE]
    /\ due' = [verified |-> v, open |-> TRUE]
    /\ UNCHANGED <<role, doc, review, patch>>

\* QassobMeView makes the row on the first request to /me, verified.
OpenApp == role = "QASSOB" /\ Created(TRUE)

\* An update of the one column.
Marks(v) ==
    /\ profile.here
    /\ profile' = [profile EXCEPT !.verified = v]
    /\ due' = [due EXCEPT !.verified = v]
    /\ UNCHANGED <<role, doc, review, patch>>

\* _ensure_profile: a qassob gets an unverified row if none is there; a catalog
\* operator's is made by the signal on the user and verified every time.
EnsureProfile ==
    \/ role = "QASSOB" /\ Created(FALSE)
    \/ role = "SUPPLIER" /\ (Created(TRUE) \/ Marks(TRUE))

\* The actions of Django Admin.
AdminMarks(v) == Marks(v)

\* Availability: an update of the one column.
Toggle(open) ==
    /\ profile.here
    /\ profile' = [profile EXCEPT !.open = open]
    /\ due' = [due EXCEPT !.open = open]
    /\ UNCHANGED <<role, doc, review, patch>>

\* The field, if any, that a PATCH may post: is_open_now is in the qassob's own
\* serializer, is_verified in the one of SupplierAdminDetailView.
Posts == {{}, IF role = "QASSOB" THEN {"open"} ELSE {"verified"}}

\* PATCH loads the row and sets what was posted ...
PatchLoad(o, posted, value) ==
    /\ profile.here /\ patch[o] = NoCopy
    /\ posted \in Posts
    /\ patch' = [patch EXCEPT ![o].posted = posted,
                              ![o].row = [f \in DOMAIN profile |->
                                             IF f \in posted THEN value ELSE profile[f]]]
    /\ UNCHANGED <<role, profile, doc, review, due>>

\* ... and saves all of it.
PatchSave(o) ==
    LET row == patch[o].row
        posted == patch[o].posted IN
    /\ patch[o] # NoCopy
    /\ profile' = row
    /\ due' = [f \in DOMAIN due |-> IF f \in posted THEN row[f] ELSE due[f]]
    /\ patch' = [patch EXCEPT ![o] = NoCopy]
    /\ UNCHANGED <<role, doc, review>>

---------------------------------------------------------------------------
(* The documents *)

\* The row lock of a change form that has saved document k.
Locked(k) == \E a \in Admins : review[a].form /\ review[a].kind = k

\* KYCListCreateView.post: update_or_create, pending again.
Upload(k) ==
    /\ ~Locked(k)
    /\ doc' = [doc EXCEPT ![k] = "pending"]
    /\ UNCHANGED <<role, profile, review, patch, due>>

\* mark_rejected: update(), so no signal.
MarkRejected(k) ==
    /\ doc[k] # "none" /\ ~Locked(k)
    /\ doc' = [doc EXCEPT ![k] = "pending"]
    /\ UNCHANGED <<role, profile, review, patch, due>>

\* mark_approved: save() of a document that was pending when the list was read.
MarkApproved(a, k) ==
    /\ review[a] = NoReview
    /\ doc[k] # "none" /\ ~Locked(k)
    /\ doc' = [doc EXCEPT ![k] = "approved"]
    /\ review' = [review EXCEPT ![a] = [stage |-> "saved", form |-> FALSE, kind |-> k, ok |-> TRUE]]
    /\ UNCHANGED <<role, profile, patch, due>>

\* The change form's save, in its transaction; the signal returns at once unless
\* the document is approved.
FormSaves(a, k, ok) ==
    /\ review[a] = NoReview
    /\ doc[k] # "none" /\ ~Locked(k)
    /\ review' = [review EXCEPT ![a] = [stage |-> IF ok THEN "saved" ELSE "commit",
                                        form |-> TRUE, kind |-> k, ok |-> ok]]
    /\ UNCHANGED <<role, profile, doc, patch, due>>

\* The documents as the review of a sees them, and leaves them when it commits.
Seen(a) ==
    LET r == review[a] IN
    IF r.form THEN [doc EXCEPT ![r.kind] = IF r.ok THEN "approved" ELSE "pending"] ELSE doc

Approved(docs) == {k \in Kinds : docs[k] = "approved"}

\* Mutant of Complete: any approved document.
Complete_Any(docs) == Approved(docs) # {}

Complete(docs) == Approved(docs) = Kinds

SignalGoesOn(a, stage) == review' = [review EXCEPT ![a].stage = stage]

SignalEnds(a) ==
    IF review[a].form THEN SignalGoesOn(a, "commit") ELSE review' = [review EXCEPT ![a] = NoReview]

\* auto_verify_on_full_kyc_approval: the query for the approved documents ...
SignalFinds(a) ==
    /\ review[a].stage = "saved"
    /\ IF Complete(Seen(a)) THEN SignalGoesOn(a, "found") ELSE SignalEnds(a)
    /\ UNCHANGED <<role, profile, doc, patch, due>>

\* ... the one for the profile, with which an action's review is decided ...
SignalReads(a) ==
    /\ review[a].stage = "found"
    /\ IF profile.here /\ ~profile.verified THEN SignalGoesOn(a, "flip") ELSE SignalEnds(a)
    /\ due' = [due EXCEPT !.verified = @ \/ (profile.here /\ ~review[a].form)]
    /\ UNCHANGED <<role, profile, doc, patch>>

\* ... and the update of the flag.
SignalFlips(a) ==
    /\ review[a].stage = "flip" /\ ~review[a].form
    /\ profile' = [profile EXCEPT !.verified = TRUE]
    /\ review' = [review EXCEPT ![a] = NoReview]
    /\ UNCHANGED <<role, doc, patch, due>>

\* A change form updates the flag and commits; the row is locked in between.  Its
\* review is decided by the documents as they are then.
FormCommits(a) ==
    /\ review[a].form /\ review[a].stage \in {"flip", "commit"}
    /\ doc' = Seen(a)
    /\ profile' = [profile EXCEPT !.verified = @ \/ review[a].stage = "flip"]
    /\ due' = [due EXCEPT !.verified =
                   @ \/ (review[a].ok /\ Approved(Seen(a)) = Kinds /\ profile.here)]
    /\ review' = [review EXCEPT ![a] = NoReview]
    /\ UNCHANGED <<role, patch>>

PrNext ==
    \/ OpenApp
    \/ EnsureProfile
    \/ \E b \in BOOLEAN : Toggle(b) \/ AdminMarks(b)
    \/ \E o \in Owners : PatchSave(o)
                       \/ \E posted \in Posts, b \in BOOLEAN : PatchLoad(o, posted, b)
    \/ \E k \in Kinds : Upload(k) \/ MarkRejected(k)
    \/ \E a \in Admins :
          \/ SignalFinds(a) \/ SignalReads(a) \/ SignalFlips(a) \/ FormCommits(a)
          \/ \E k \in Kinds : MarkApproved(a, k) \/ \E ok \in BOOLEAN : FormSaves(a, k, ok)

PrSpec == PrInit /\ [][PrNext]_pvars

---------------------------------------------------------------------------
(* Properties *)

Pending == \E a \in Admins : review[a].stage = "flip" /\ ~review[a].form

\* What buyers see is not what was decided last, nor is a signal about to set it.
Undone(f) ==
    /\ profile.here
    /\ profile[f] # due[f]
    /\ ~(f = "verified" /\ due.verified /\ Pending)

\* What the signal of form a found is not so any more: another document or the
\* profile was written after its queries.
Missed(a) ==
    (review[a].stage = "flip") # (/\ review[a].ok /\ Complete(Seen(a))
                                  /\ profile.here /\ ~profile.verified)

\* A step that can undo the decision on f: a PATCH saves back a value it did not
\* post and others have changed since; the signal of an approval sets the flag
\* after an administrator has taken it away; a change form commits what a write
\* since its queries has overtaken.
Overlaps(f) ==
    \/ \E o \in Owners : PatchSave(o) /\ f \notin patch[o].posted /\ patch[o].row[f] # profile[f]
    \/ \E a \in Admins : f = "verified" /\ SignalFlips(a) /\ ~due.verified
    \/ \E a \in Admins : f = "verified" /\ FormCommits(a) /\ Missed(a)

\* Whether buyers are shown the profile (verified and open) stays as it was last
\* decided: by a review of both documents, an administrator, the creation of the
\* row or its owner.  The three overlaps, and nothing else, undo a decision.
OnlyOverlapsUndoDecisions ==
    [][\A f \in {"verified", "open"} : Undone(f)' /\ ~Undone(f) => Overlaps(f)]_pvars

=============================================================================
