------------------------------ MODULE Accounts ------------------------------
(***************************************************************************)
(* The rows of the user table (backend/apps/accounts): who registers,      *)
(* which accounts the platform issues, and what PATCH and DELETE /me do.   *)
(*                                                                         *)
(* Signing in is by phone.  A user who registers by phone, and a partner   *)
(* provisioned by phone, gets an email made from the phone; both columns   *)
(* are unique.  Nothing here is a transaction: a request that loads a row  *)
(* and saves all its columns is a Read step and a Write step.              *)
(*                                                                         *)
(* Left out: names and the other profile fields, which nothing here reads, *)
(* tokens, is_active, the forms of Django Admin, and SUPPLIER rows without *)
(* the internal flag, which only old data has.                             *)
(***************************************************************************)
EXTENDS Integers

CONSTANTS
    MaxUsers,       \* BOUND: accounts ever made
    Numbers,        \* the phone numbers in use
    MaxSecrets,     \* BOUND: passwords ever handed out
    WorkRoles,      \* BOUND: the partner roles that are provisioned
    Servers         \* BOUND: requests being served at the same time

Users == 1 .. MaxUsers

None == "none"      \* no phone; an email of the user's own
Bootstrap == "admin"    \* ADMIN_BOOTSTRAP_EMAIL

ASSUME AccountsAssumption ==
    /\ {MaxUsers, MaxSecrets} \subseteq Nat
    /\ Numbers \cap {None, Bootstrap} = {}
    /\ WorkRoles \subseteq {"SUPPLIER", "QASSOB", "COURIER"}

VARIABLES
    user,       \* user[u]: a row of the user table
    save,       \* save[s]: the row server s has loaded and is about to save
    secrets,    \* how many passwords have been handed out
    handed      \* history: handed[n], the role and password last given to n,
                \* until n is moved, deleted, or overwritten from an old copy

avars == <<user, save, secrets, handed>>

Partners == {"SUPPLIER", "QASSOB", "COURIER"}

\* secret 0 is the password of nobody.
NoUser == [at |-> "absent", email |-> None, phone |-> None, role |-> "BUYER", secret |-> 0]

NoCredentials == [role |-> "BUYER", secret |-> 0]

\* u: the row, 0 to insert one; issues: it hands out a password;
\* stale (history): another request has written the row since it was loaded.
NoSave == [u |-> 0, row |-> NoUser, issues |-> FALSE, stale |-> FALSE]

Exists(u) == user[u].at = "here"

NextUser(u) == user[u].at = "absent" /\ \A v \in 1 .. u - 1 : user[v].at # "absent"

Staff(row) == row.email = Bootstrap

\* The unique email, and the phone that is unique when it is not blank.
Unique(u, row) ==
    \A v \in Users \ {u} : Exists(v) =>
        /\ row.phone = None \/ user[v].phone # row.phone
        /\ row.email = None \/ user[v].email # row.email

AInit ==
    /\ user = [u \in Users |-> NoUser]
    /\ save = [s \in Servers |-> NoSave]
    /\ secrets = 0
    /\ handed = [n \in Numbers |-> NoCredentials]

---------------------------------------------------------------------------
(* Signing in: the three logins look the number up *)

PhoneCheck(n) == \E u \in Users : Exists(u) /\ user[u].phone = n

PhoneLogin(n) == {u \in Users : Exists(u) /\ user[u].phone = n /\ user[u].role = "BUYER"}

PasswordLogin(n, secret) ==
    {u \in Users : Exists(u) /\ user[u].phone = n
                   /\ user[u].secret = secret /\ secret # 0 /\ user[u].role \in Partners}

\* The answer of the Firebase endpoint: a buyer, a number to register, or 403.
FirebaseLogin(n) ==
    IF ~PhoneCheck(n) THEN "new_user" ELSE IF PhoneLogin(n) # {} THEN "signed_in" ELSE "refused"

---------------------------------------------------------------------------
(* Registration *)

Insert(u, row) == NextUser(u) /\ Unique(u, row) /\ user' = [user EXCEPT ![u] = row]

\* RegisterView, with an email of the user's own, the phone optional.
Register(u, n) ==
    /\ Insert(u, [NoUser EXCEPT !.at = "here", !.phone = n])
    /\ UNCHANGED <<save, secrets, handed>>

FromPhone(n) == [NoUser EXCEPT !.at = "here", !.phone = n, !.email = n]

\* PhoneRegisterView and create_user_from_phone; 409 if either column is taken.
PhoneRegister(u, n) ==
    /\ Insert(u, FromPhone(n))
    /\ UNCHANGED <<save, secrets, handed>>

\* AdminUnlockView makes the bootstrap admin the first time.
AdminUnlock(u) ==
    /\ Insert(u, [NoUser EXCEPT !.at = "here", !.role = "ADMIN", !.email = Bootstrap])
    /\ UNCHANGED <<save, secrets, handed>>

---------------------------------------------------------------------------
(* Provisioning and PATCH, in which server s loads or makes a row ... *)

Begin(s, u, row, issues) ==
    /\ save[s] = NoSave
    /\ save' = [save EXCEPT ![s] = [NoSave EXCEPT !.u = u, !.row = row, !.issues = issues]]
    /\ UNCHANGED handed

NewSecret == secrets < MaxSecrets /\ secrets' = secrets + 1

\* provision_partner, in place if the phone is known; never over a staff row.
ProvisionRead(s, n, role) ==
    /\ NewSecret
    /\ \/ \E u \in Users :
              /\ Exists(u) /\ user[u].phone = n
              /\ user[u].role # "ADMIN" /\ ~Staff(user[u])
              /\ Begin(s, u, [user[u] EXCEPT !.role = role, !.secret = secrets'], TRUE)
       \/ /\ ~PhoneCheck(n)
          /\ Begin(s, 0, [FromPhone(n) EXCEPT !.role = role, !.secret = secrets'], TRUE)
    /\ UNCHANGED user

\* AdminProvisionCourierView, by email: get_or_create, which inserts the row ...
ProvisionCourierNew(s, u, n) ==
    LET row == [NoUser EXCEPT !.at = "here", !.phone = n, !.role = "COURIER"] IN
    /\ NewSecret
    /\ Insert(u, row)
    /\ Begin(s, u, [row EXCEPT !.secret = secrets'], TRUE)

\* ... or finds it, whatever its role; the phone is replaced if one is posted.
ProvisionCourierRead(s, u, n) ==
    /\ NewSecret
    /\ Exists(u) /\ user[u].email \in {None, Bootstrap}
    /\ Begin(s, u, [user[u] EXCEPT !.role = "COURIER", !.secret = secrets',
                                   !.phone = IF n = None THEN @ ELSE n], TRUE)
    /\ UNCHANGED user

\* MeView's PATCH: the row that authentication loaded, with the phone it posts,
\* which may be the one it has.
PatchRead(s, u, n) ==
    /\ Exists(u)
    /\ Begin(s, u, [user[u] EXCEPT !.phone = n], FALSE)
    /\ UNCHANGED <<user, secrets>>

\* Mutant of Saved: update_fields without the role.
Saved_NotRole(u, row) == [user EXCEPT ![u] = [row EXCEPT !.role = user[u].role]]

\* save() writes every column, and inserts the row again if it is gone.
Saved(u, row) == [user EXCEPT ![u] = row]

\* The requests that still hold the row as it was before this write.
MarkStale(s, u) ==
    [t \in Servers |-> IF t = s THEN NoSave
                       ELSE [save[t] EXCEPT !.stale = @ \/ (save[t].u = u /\ u # 0)]]

\* ... and saves it.
SaveRow(s, u) ==
    LET w == save[s]
        void == ({user[u].phone} \ {w.row.phone}) \cup (IF w.stale THEN {w.row.phone} ELSE {}) IN
    /\ w # NoSave /\ (u = w.u \/ (w.u = 0 /\ NextUser(u)))
    /\ Unique(u, w.row)
    /\ user' = Saved(u, w.row)
    /\ save' = MarkStale(s, u)
    /\ handed' = [n \in Numbers |->
                     IF w.issues /\ n = w.row.phone THEN [role |-> w.row.role, secret |-> w.row.secret]
                     ELSE IF n \in void THEN NoCredentials ELSE handed[n]]
    /\ UNCHANGED secrets

\* A column that another row has: IntegrityError, or no row left to insert.
SaveFails(s) ==
    /\ save[s] # NoSave
    /\ \A u \in Users : u = save[s].u \/ (save[s].u = 0 /\ NextUser(u)) => ~Unique(u, save[s].row)
    /\ save' = [save EXCEPT ![s] = NoSave]
    /\ UNCHANGED <<user, secrets, handed>>

\* MeView's DELETE; a user whose listings have orders is refused and keeps the row.
DeleteMe(u) ==
    /\ Exists(u)
    /\ user' = [user EXCEPT ![u] = [NoUser EXCEPT !.at = "deleted"]]
    /\ save' = [s \in Servers |-> [save[s] EXCEPT !.stale = @ \/ save[s].u = u]]
    /\ handed' = [n \in Numbers |-> IF n = user[u].phone THEN NoCredentials ELSE handed[n]]
    /\ UNCHANGED secrets

\* The command promote_to_partner: the role, and only that column.
PromoteToPartner(u) ==
    LET n == user[u].phone IN
    /\ Exists(u) /\ n # None /\ user[u].role # "QASSOB"
    /\ user' = [user EXCEPT ![u].role = "QASSOB"]
    /\ handed' = IF handed[n] = NoCredentials THEN handed ELSE [handed EXCEPT ![n].role = "QASSOB"]
    /\ save' = [s \in Servers |-> [save[s] EXCEPT !.stale = @ \/ save[s].u = u]]
    /\ UNCHANGED secrets

ANext ==
    \/ \E u \in Users :
          \/ \E n \in Numbers \cup {None} : Register(u, n)
          \/ \E n \in Numbers : PhoneRegister(u, n)
          \/ AdminUnlock(u)
          \/ DeleteMe(u)
          \/ PromoteToPartner(u)
    \/ \E s \in Servers :
          \/ \E n \in Numbers, role \in WorkRoles : ProvisionRead(s, n, role)
          \/ \E u \in Users, n \in Numbers \cup {None} :
                \/ ProvisionCourierNew(s, u, n)
                \/ ProvisionCourierRead(s, u, n)
                \/ PatchRead(s, u, n)
          \/ \E u \in Users : SaveRow(s, u)
          \/ SaveFails(s)

ASpec == AInit /\ [][ANext]_avars

---------------------------------------------------------------------------
(* Properties *)

\* The phone and password last handed to a partner open the account they were
\* handed for, unless the number has since been moved, deleted, or overwritten
\* by a request that had loaded the row before.  Looking the account up by a
\* column that other endpoints rewrite is what could break it.
HandedCredentialsWork ==
    \A n \in Numbers : handed[n] # NoCredentials =>
        \E u \in PasswordLogin(n, handed[n].secret) : user[u].role = handed[n].role

\* The comment at accounts/managers.py:49: the email made from a phone is
\* "guaranteed unique because phone is unique", so a number nobody has can
\* register.  PATCH moves the phone and leaves the email behind.
EveryPhoneCanRegister ==
    \A n \in Numbers : FirebaseLogin(n) = "new_user" =>
        \A u \in Users : NextUser(u) => Unique(u, FromPhone(n))

=============================================================================
