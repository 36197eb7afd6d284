------------------------------- MODULE Accounts -------------------------------
(***************************************************************************)
(* Customer (identity/customer) with its projections, and the list of      *)
(* suspended accounts that Ordering keeps (ordering/order/                 *)
(* identity_events.py), for one customer.  No command but those of the     *)
(* account's status looks at the status.  Names and streets are a version  *)
(* each; e-mail address and dates are left out, and customer_lookup with   *)
(* them.                                                                   *)
(***************************************************************************)
EXTENDS ReadModel, Lists

CONSTANTS
  AddressIds,    \* uuid4 values addresses may get
  MaxAddresses,  \* 10 in the code
  Phones         \* phone numbers the customer may have

ASSUME AccountsAssumption == MaxAddresses \in Nat \ {0} /\ "None" \notin Phones

VARIABLES
  account,    \* CustomerStatus
  tier,       \* position in _TIER_ORDER
  profile,    \* first name and phone number
  addresses   \* address id -> Address, NoAddress where there is none

account_vars == <<account, tier, profile, addresses>>

accounts_vars == <<account_vars, read_vars>>

------------------------------------------------------------------------------
Tiers == 1..4  \* Standard, Silver, Gold, Platinum

NoAddress == [street |-> "none", is_default |-> FALSE]

Kept == {a \in AddressIds : addresses[a] # NoAddress}

Defaults == {a \in Kept : addresses[a].is_default}

Tell(event) == Publish(<<event>>)

(* The handler never passes is_default: only the first address gets it.    *)
add_address ==
  \E a \in AddressIds \ Kept :
    /\ Cardinality(Kept) < MaxAddresses
    /\ addresses' = [addresses EXCEPT ![a] = [street |-> "old", is_default |-> Kept = {}]]
    /\ Tell([type |-> "AddressAdded", address_id |-> a, is_default |-> Kept = {}])
    /\ UNCHANGED <<account, tier, profile>>

update_address(a) ==
  /\ a \in Kept
  /\ addresses' = [addresses EXCEPT ![a].street = "new"]
  /\ Tell([type |-> "AddressUpdated", address_id |-> a])
  /\ UNCHANGED <<account, tier, profile>>

(* Mutant: the default goes with the address.                              *)
remove_address_Default(a) ==
  /\ a \in Kept
  /\ Cardinality(Kept) > 1
  /\ addresses' = [addresses EXCEPT ![a] = NoAddress]
  /\ Tell([type |-> "AddressRemoved", address_id |-> a])
  /\ UNCHANGED <<account, tier, profile>>

(* The default passes to the first of the other addresses, in the order    *)
(* the database lists them.  No event says so.                             *)
remove_address(a) ==
  /\ a \in Kept
  /\ Cardinality(Kept) > 1
  /\ \E first \in Kept \ {a} :
       addresses' = [addresses EXCEPT
                       ![a] = NoAddress,
                       ![first].is_default = @ \/ addresses[a].is_default]
  /\ Tell([type |-> "AddressRemoved", address_id |-> a])
  /\ UNCHANGED <<account, tier, profile>>

set_default_address(a) ==
  /\ a \in Kept
  /\ addresses' = [b \in AddressIds |->
                     IF b \in Kept THEN [addresses[b] EXCEPT !.is_default = (b = a)] ELSE NoAddress]
  /\ Tell([type |-> "DefaultAddressChanged", address_id |-> a])
  /\ UNCHANGED <<account, tier, profile>>

------------------------------------------------------------------------------
SetAccount(from, to, type) ==
  /\ account \in from
  /\ account' = to
  /\ Tell([type |-> type])
  /\ UNCHANGED <<tier, profile, addresses>>

suspend == SetAccount({"Active"}, "Suspended", "AccountSuspended")

reactivate == SetAccount({"Suspended"}, "Active", "AccountReactivated")

close == SetAccount({"Active", "Suspended"}, "Closed", "AccountClosed")

upgrade_tier(new_tier) ==
  /\ new_tier > tier
  /\ tier' = new_tier
  /\ Tell([type |-> "TierUpgraded", new_tier |-> new_tier])
  /\ UNCHANGED <<account, profile, addresses>>

(* A phone number that is not given stays; an empty one is removed.        *)
update_profile(name, phone) ==
  /\ profile' = [name |-> name, phone |-> phone]
  /\ Tell([type |-> "ProfileUpdated", name |-> name, phone |-> phone])
  /\ UNCHANGED <<account, tier, addresses>>

AccountCommand ==
  \/ suspend \/ reactivate \/ close \/ add_address
  \/ \E new_tier \in Tiers : upgrade_tier(new_tier)
  \/ \E name \in {"old", "new"}, phone \in Phones \cup {"None"} : update_profile(name, phone)
  \/ \E a \in AddressIds : update_address(a) \/ remove_address(a) \/ set_default_address(a)

------------------------------------------------------------------------------
(* Projectors: what the projection is after event e, if it was r before.   *)
AccountViews == {"customer_card", "customer_segments", "address_book", "suspended_account"}

Becomes == [AccountSuspended |-> "Suspended", AccountReactivated |-> "Active",
            AccountClosed |-> "Closed"]

(* A phone number that was removed stays on the card.                      *)
on_customer_card(r, e) ==
  CASE e.type \in DOMAIN Becomes -> [r EXCEPT !.status = Becomes[e.type]]
    [] e.type = "TierUpgraded" -> [r EXCEPT !.tier = e.new_tier]
    [] e.type = "ProfileUpdated" ->
         [r EXCEPT !.name = e.name, !.phone = IF e.phone = "None" THEN r.phone ELSE e.phone]
    [] OTHER -> r

on_customer_segments(r, e) ==
  CASE e.type = "TierUpgraded" -> [r EXCEPT !.tier = e.new_tier]
    [] e.type = "ProfileUpdated" -> [r EXCEPT !.name = e.name]
    [] OTHER -> r

Entries(r, a) == {k \in 1..Len(r) : r[k].address_id = a}

FirstEntry(r, a) == {k \in Entries(r, a) : \A j \in Entries(r, a) : k <= j}

(* Entries are appended; an update finds the first entry of the address.   *)
on_address_book(r, e) ==
  CASE e.type = "AddressAdded" ->
         Append(r, [address_id |-> e.address_id, street |-> "old", is_default |-> e.is_default])
    [] e.type = "AddressUpdated" ->
         [k \in DOMAIN r |-> IF k \in FirstEntry(r, e.address_id)
                             THEN [r[k] EXCEPT !.street = "new"] ELSE r[k]]
    [] e.type = "AddressRemoved" -> Keeping(r, DOMAIN r \ Entries(r, e.address_id))
    [] e.type = "DefaultAddressChanged" ->
         [k \in DOMAIN r |-> [r[k] EXCEPT !.is_default = k \in Entries(r, e.address_id)]]
    [] OTHER -> r

(* IdentityOrderEventHandler: whether Ordering lists the account.          *)
on_suspended_account(r, e) ==
  CASE e.type = "AccountSuspended" -> TRUE
    [] e.type = "AccountReactivated" -> FALSE
    [] OTHER -> r

AccountProjected(r, e) ==
  CASE view = "customer_card" -> on_customer_card(r, e)
    [] view = "customer_segments" -> on_customer_segments(r, e)
    [] view = "address_book" -> on_address_book(r, e)
    [] view = "suspended_account" -> on_suspended_account(r, e)

(* CustomerRegistered does not carry the phone number.                     *)
AccountRow ==
  CASE view = "customer_card" -> [status |-> "Active", tier |-> 1, name |-> "old", phone |-> "None"]
    [] view = "customer_segments" -> [tier |-> 1, name |-> "old"]
    [] view = "address_book" -> << >>
    [] view = "suspended_account" -> FALSE

------------------------------------------------------------------------------
RegisterCustomer ==
  /\ account = "Active"
  /\ tier = 1
  /\ profile \in [name : {"old"}, phone : Phones \cup {"None"}]
  /\ addresses = [a \in AddressIds |-> NoAddress]

AccountsInit ==
  /\ RegisterCustomer
  /\ view \in AccountViews
  /\ row = AccountRow
  /\ unread = << >>
  /\ redelivered = FALSE

AccountProjection == Project(AccountProjected(row, Head(unread))) /\ UNCHANGED account_vars

AccountsNext == AccountCommand \/ AccountProjection

AccountsSpec == AccountsInit /\ [][AccountsNext]_accounts_vars

------------------------------------------------------------------------------
(* A number on the card is the customer's, or was removed since.           *)
CardFollows ==
  /\ row.status = account /\ row.tier = tier /\ row.name = profile.name
  /\ row.phone # "None" => profile.phone \in {row.phone, "None"}

(* The book lists every address, with its street unless an addition was    *)
(* handled twice.  What it marks as the default is the default; when the   *)
(* default address was removed it marks none.                              *)
BookFollows ==
  /\ {row[k].address_id : k \in DOMAIN row} = Kept
  /\ ~redelivered =>
       /\ Len(row) = Cardinality(Kept)
       /\ \A k \in DOMAIN row : row[k].street = addresses[row[k].address_id].street
  /\ \A k \in DOMAIN row : row[k].is_default => row[k].address_id \in Defaults

(* Ordering lists every suspended account and no active one; one that was  *)
(* closed while suspended stays listed.                                    *)
SuspensionFollows == /\ account = "Suspended" => row
                     /\ account = "Active" => ~row

(* There is one default address as soon as there are addresses, through    *)
(* every removal, and the projections that caught up tell the truth about  *)
(* the customer, with the exceptions above.                                *)
AccountFollows ==
  /\ Kept # {} => Cardinality(Defaults) = 1
  /\ CaughtUp =>
       CASE view = "customer_card" -> CardFollows
         [] view = "customer_segments" -> row = [tier |-> tier, name |-> profile.name]
         [] view = "address_book" -> BookFollows
         [] view = "suspended_account" -> SuspensionFollows
         [] OTHER -> TRUE
==============================================================================
