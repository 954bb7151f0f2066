------------------------------ MODULE PriceLog ------------------------------
(***************************************************************************)
(* The price history of one listing: the signals that capture the old      *)
(* price before a save and log the change after it                         *)
(* (backend/apps/listings/signals.py), under the three endpoints that save *)
(* an existing listing through the model: PATCH, the quick price edit and  *)
(* the archiving of a listing with orders in its past.  (Stock is changed  *)
(* through the model too, by saves that load and save under a row lock.    *)
(* Django Admin's form saves like a PATCH, in a transaction, so that its   *)
(* behaviours are among those of PATCH.)                                   *)
(*                                                                         *)
(* None of the three is in a transaction, so that loading the row, the     *)
(* pre_save query, the UPDATE and the log entry are four steps, and a      *)
(* request may die between two.                                            *)
(***************************************************************************)
EXTENDS Integers, Sequences

CONSTANTS
    Prices,             \* the prices anyone sets
    MaxSaves,           \* BOUND: how many requests there ever are
    Editors             \* BOUND: requests being served at the same time

ASSUME PricesAssumption == Prices \subseteq Nat /\ MaxSaves \in Nat

VARIABLES
    price,          \* the price_per_kg column
    price_history,  \* the PriceHistory rows, oldest first
    edit,           \* edit[e]: the request editor e is making
    started,        \* how many requests have begun
    overtaken,      \* history: a price was changed under a request
    lost            \* history: a request died between its change and the entry

plvars == <<price, price_history, edit, started, overtaken, lost>>

\* price: the instance's; own: is the price among the columns it will save;
\* previous: instance._previous_price.
NoEdit == [at |-> "none", price |-> 0, own |-> FALSE, previous |-> 0]

\* The row is loaded, and the posted fields are set on the copy: a PATCH may
\* leave the price, but saves every column; archiving saves the status only.
Load(e) ==
    /\ edit[e] = NoEdit /\ started < MaxSaves
    /\ \/ \E new \in Prices :       \* quick price, or PATCH of the price
              edit' = [edit EXCEPT ![e] = [NoEdit EXCEPT !.at = "loaded", !.price = new, !.own = TRUE]]
       \/ \E own \in BOOLEAN :      \* PATCH of something else; archiving
              edit' = [edit EXCEPT ![e] = [NoEdit EXCEPT !.at = "loaded", !.price = price, !.own = own]]
    /\ started' = started + 1
    /\ UNCHANGED <<price, price_history, overtaken, lost>>

CaptureOldPrice(e) ==
    /\ edit[e].at = "loaded"
    /\ edit' = [edit EXCEPT ![e].at = "captured", ![e].previous = price]
    /\ UNCHANGED <<price, price_history, started, overtaken, lost>>

Save(e) ==
    /\ edit[e].at = "captured"
    /\ price' = IF edit[e].own THEN edit[e].price ELSE price
    /\ edit' = [edit EXCEPT ![e].at = "saved"]
    /\ overtaken' = (overtaken \/ (price' # price /\ \E d \in Editors \ {e} : edit[d] # NoEdit))
    /\ UNCHANGED <<price_history, started, lost>>

\* Mutant of LogPriceChange: the entry is written for every save.
LogPriceChange_Always(e) ==
    /\ edit[e].at = "saved"
    /\ price_history' = Append(price_history, <<edit[e].previous, edit[e].price>>)
    /\ edit' = [edit EXCEPT ![e] = NoEdit]
    /\ UNCHANGED <<price, started, overtaken, lost>>

\* The instance's price is compared whether or not this save wrote it.
LogPriceChange(e) ==
    /\ edit[e].at = "saved"
    /\ price_history' = IF edit[e].previous = edit[e].price THEN price_history
                        ELSE Append(price_history, <<edit[e].previous, edit[e].price>>)
    /\ edit' = [edit EXCEPT ![e] = NoEdit]
    /\ UNCHANGED <<price, started, overtaken, lost>>

\* The worker is killed, or the database refuses: what was committed stays.
EditDies(e) ==
    /\ edit[e] # NoEdit
    /\ edit' = [edit EXCEPT ![e] = NoEdit]
    /\ lost' = (lost \/ (edit[e].at = "saved" /\ edit[e].previous # edit[e].price))
    /\ UNCHANGED <<price, price_history, started, overtaken>>

PlInit ==
    /\ price \in Prices
    /\ price_history = <<>>
    /\ edit = [e \in Editors |-> NoEdit]
    /\ started = 0
    /\ overtaken = FALSE /\ lost = FALSE

PlNext ==
    \E e \in Editors :
        Load(e) \/ CaptureOldPrice(e) \/ Save(e) \/ LogPriceChange(e) \/ EditDies(e)

PlSpec == PlInit /\ [][PlNext]_plvars

---------------------------------------------------------------------------
(* Properties *)

\* The log is "every price change": entry by entry the new price is the old
\* one of the next, no entry is a change to the same price, and the last one
\* leads to the price the listing has, or is about to be followed by the entry
\* of a save just made.  A request that saves other columns logs nothing.  It
\* takes a price change between the load and the log of another request, or one
\* whose request died before the entry, to lose an entry, and the former to log
\* a price that was never set.
HistoryIsAChain ==
    \/ overtaken \/ lost
    \/ /\ \A k \in 1 .. Len(price_history) - 1 : price_history[k][2] = price_history[k + 1][1]
       /\ \A k \in 1 .. Len(price_history) : price_history[k][1] # price_history[k][2]
       /\ Len(price_history) > 0 =>
              \/ price_history[Len(price_history)][2] = price
              \/ \E e \in Editors : /\ edit[e].at = "saved" /\ edit[e].price = price
                                    /\ edit[e].previous = price_history[Len(price_history)][2]
=============================================================================
