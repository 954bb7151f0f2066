------------------------------ MODULE Markets ------------------------------
(***************************************************************************)
(* The shop fronts (backend/apps/markets).  A market can list nothing      *)
(* until it is owned by a supplier account: an admin's POST creates the    *)
(* market, then its account, then links the two; a partner's first GET of  *)
(* /markets/me/ creates one that is his; Django admin creates one without  *)
(* an owner.  There is no transaction around any of these, so every query  *)
(* that writes is a step, and a request may die between two.               *)
(***************************************************************************)
EXTENDS Integers, FiniteSets

CONSTANTS
    MaxMarkets,     \* BOUND: how many markets are ever inserted
    MaxSlugs,       \* BOUND: the last suffix tried for a slug
    Posts,          \* BOUND: admins' requests served at the same time
    Sellers         \* partner accounts

MarketIds == 1 .. MaxMarkets

\* The slugs of one name, with suffix 0 for none, which is what slugify makes
\* of the name.  One name is enough: two names do not meet.
Slugs == 0 .. MaxSlugs

VARIABLES
    market,         \* market[m]:   a Market row
    accounts,       \* the supplier accounts there are, of both kinds
    post,           \* post[a]:     an admin's POST or PATCH, half done
    first           \* first[p]:    the slug that a GET of p has chosen

mvars == <<market, accounts, post, first>>

\* The account "market-<slug>@market.goshtli.local", and a partner's.
Synthetic(s) == [kind |-> "synthetic", key |-> s]
Partner(p) == [kind |-> "partner", key |-> p]
Nobody == [kind |-> "nobody", key |-> 0]

NoMarket == [at |-> "absent", slug |-> 0, owner |-> Nobody, active |-> TRUE]

NoPost == [at |-> "idle", market |-> 0, copy |-> NoMarket]

\* A request that was cut off; its worker serves the next one.
CutOff == [NoPost EXCEPT !.at = "cut off"]

Ready(a) == post[a] \in {NoPost, CutOff}

NoSlug == -1

Open(m) == market[m].at = "here"

\* The next primary key, and the two unique constraints of the table.
NextMarket(m) == market[m] = NoMarket /\ \A n \in 1 .. m - 1 : market[n] # NoMarket

SlugFree(s, m) == \A n \in MarketIds \ {m} : Open(n) => market[n].slug # s

OwnerFree(u, m) == u = Nobody \/ \A n \in MarketIds \ {m} : Open(n) => market[n].owner # u

Put(m, row) == market' = [market EXCEPT ![m] = row]

Insert(m, s, u) ==
    /\ NextMarket(m) /\ SlugFree(s, m) /\ OwnerFree(u, m)
    /\ Put(m, [at |-> "here", slug |-> s, owner |-> u, active |-> TRUE])

Done(a) == post' = [post EXCEPT ![a] = NoPost]

---------------------------------------------------------------------------
(* MarketSerializer.create *)

CreateMarket(a, m) ==
    /\ Ready(a)
    /\ Insert(m, 0, Nobody)
    /\ post' = [post EXCEPT ![a] = [NoPost EXCEPT !.at = "created", !.market = m]]
    /\ UNCHANGED <<accounts, first>>

\* The account of the slug that save() made of the name, found or created.
CreateOwner(a) ==
    /\ post[a].at = "created"
    /\ accounts' = accounts \cup {Synthetic(0)}
    /\ post' = [post EXCEPT ![a].at = "owned"]
    /\ UNCHANGED <<market, first>>

\* Mutant of Linked: an account that was there before is not linked again.
Linked_Once(a) ==
    IF \E n \in MarketIds : n # post[a].market /\ market[n] # NoMarket
    THEN Nobody ELSE Synthetic(0)

Linked(a) == Synthetic(0)      \* the account CreateOwner found

\* save(update_fields=["owner_user"]).  It fails, and the market stays as it
\* is, if the account backs another market or the row is gone.
LinkOwner(a) ==
    LET m == post[a].market IN
    /\ post[a].at = "owned"
    /\ IF Open(m) /\ OwnerFree(Linked(a), m)
       THEN Put(m, [market[m] EXCEPT !.owner = Linked(a)])
       ELSE UNCHANGED market
    /\ Done(a)
    /\ UNCHANGED <<accounts, first>>

\* The server dies with the request half done.
Dies(a) ==
    /\ ~Ready(a)
    /\ post' = [post EXCEPT ![a] = CutOff]
    /\ UNCHANGED <<market, accounts, first>>

---------------------------------------------------------------------------
(* MarketDetailView *)

PatchReads(a, m) ==
    /\ Ready(a) /\ Open(m)
    /\ post' = [post EXCEPT ![a] =
           [NoPost EXCEPT !.at = "patch", !.market = m, !.copy = market[m]]]
    /\ UNCHANGED <<market, accounts, first>>

\* save() of the copy: every column, owner and is_active among them; a row that
\* is gone is inserted again.  A constraint that the copy breaks by now, or an
\* owner that is gone, is an error.
PatchSaves(a, active) ==
    LET m == post[a].market
        copy == post[a].copy IN
    /\ post[a].at = "patch"
    /\ IF /\ SlugFree(copy.slug, m) /\ OwnerFree(copy.owner, m)
          /\ copy.owner \in accounts \cup {Nobody}
       THEN \E yes \in {copy.active, active} : Put(m, [copy EXCEPT !.active = yes])
       ELSE UNCHANGED market
    /\ Done(a)
    /\ UNCHANGED <<accounts, first>>

\* perform_destroy archives.
Archive(m) ==
    /\ Open(m) /\ market[m].active
    /\ Put(m, [market[m] EXCEPT !.active = FALSE])
    /\ UNCHANGED <<accounts, post, first>>

---------------------------------------------------------------------------
(* MyMarketView *)

\* The caller owns no market; the slug is the first that no market has.
FirstGet(p) ==
    /\ Partner(p) \in accounts /\ first[p] = NoSlug
    /\ \A m \in MarketIds : Open(m) => market[m].owner # Partner(p)
    /\ \E s \in Slugs :
           /\ SlugFree(s, 0) /\ \A t \in 0 .. s - 1 : ~SlugFree(t, 0)
           /\ first' = [first EXCEPT ![p] = s]
    /\ UNCHANGED <<market, accounts, post>>

FirstCreate(p) ==
    /\ first[p] # NoSlug
    /\ \/ Partner(p) \in accounts /\ \E m \in MarketIds : Insert(m, first[p], Partner(p))
       \/ UNCHANGED market              \* refused: somebody was faster
    /\ first' = [first EXCEPT ![p] = NoSlug]
    /\ UNCHANGED <<accounts, post>>

---------------------------------------------------------------------------
(* Django admin, and the account's own DELETE /auth/me/ *)

\* The form has no field for the owner.
AdminAdds(m, s) ==
    /\ Insert(m, s, Nobody)
    /\ UNCHANGED <<accounts, post, first>>

AdminChangesSlug(m, s) ==
    /\ Open(m) /\ s # market[m].slug /\ SlugFree(s, m)
    /\ Put(m, [market[m] EXCEPT !.slug = s])
    /\ UNCHANGED <<accounts, post, first>>

\* A superuser's hard delete; the account stays.
AdminDeletes(m) ==
    /\ Open(m)
    /\ Put(m, [market[m] EXCEPT !.at = "gone", !.owner = Nobody])
    /\ UNCHANGED <<accounts, post, first>>

\* owner_user is SET_NULL.
OwnerLeaves(p) ==
    /\ Partner(p) \in accounts
    /\ accounts' = accounts \ {Partner(p)}
    /\ market' = [m \in MarketIds |->
           IF market[m].owner = Partner(p) THEN [market[m] EXCEPT !.owner = Nobody]
           ELSE market[m]]
    /\ UNCHANGED <<post, first>>

---------------------------------------------------------------------------

MaInit ==
    /\ market = [m \in MarketIds |-> NoMarket]
    /\ accounts = {Partner(p) : p \in Sellers}
    /\ post = [a \in Posts |-> NoPost]
    /\ first = [p \in Sellers |-> NoSlug]

MaNext ==
    \/ \E a \in Posts :
           \/ \E m \in MarketIds : CreateMarket(a, m) \/ PatchReads(a, m)
           \/ CreateOwner(a) \/ LinkOwner(a)
           \/ \E active \in BOOLEAN : PatchSaves(a, active)
           \/ Dies(a)
    \/ \E m \in MarketIds :
           \/ Archive(m) \/ AdminDeletes(m)
           \/ \E s \in Slugs : AdminAdds(m, s) \/ AdminChangesSlug(m, s)
    \/ \E p \in Sellers : FirstGet(p) \/ FirstCreate(p) \/ OwnerLeaves(p)

MaSpec == MaInit /\ [][MaNext]_mvars

---------------------------------------------------------------------------
(* Properties *)

BeingCreated(m) == \E a \in Posts : post[a].at \in {"created", "owned"} /\ post[a].market = m

\* A market for which listings/views.py has to say "This market has no backing
\* supplier user. Recreate it."
Orphan(m) == Open(m) /\ market[m].owner = Nobody /\ ~BeingCreated(m)

\* The ways in which a market comes to have no supplier: Django admin made it
\* so, its POST died half way, the account already backs a market (one of the
\* two had its slug changed), a PATCH wrote back a copy read before the link, or
\* its owner left.  Deleting a market and creating it again under its name is
\* not one of them, as MarketSerializer.create promises.
OnlyMishapsOrphan ==
    [][\A m \in MarketIds : Orphan(m)' /\ ~Orphan(m) =>
           \/ \E s \in Slugs : AdminAdds(m, s)
           \/ \E a \in Posts :
                  /\ post[a].market = m
                  /\ \/ Dies(a)
                     \/ LinkOwner(a) /\ \E n \in MarketIds \ {m} :
                            Open(n) /\ market[n].owner = Linked(a)
                     \/ \E active \in BOOLEAN : PatchSaves(a, active) /\ post[a].copy.owner = Nobody
           \/ \E p \in Sellers : OwnerLeaves(p) /\ market[m].owner = Partner(p)]_mvars
=============================================================================
