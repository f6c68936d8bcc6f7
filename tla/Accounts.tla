------------------------------ MODULE Accounts ------------------------------
(***************************************************************************)
(* The accounts of src/src/account.c and their storage in                  *)
(* src/src/account_storage.c: m_accounts, addresses a client pays to, and  *)
(* s_accounts, the wallet of accounts with private keys, which is saved in *)
(* and loaded from an encrypted file.  A secret account points to a        *)
(* malloc'ed account_info_t, which is never freed; clients get a copy of   *)
(* the account with the same pointer.                                      *)
(***************************************************************************)
EXTENDS Integers

CONSTANTS SECRET_ACCOUNTS_MAXIMUM_COUNT,   \* 5 in the code
          ACCOUNTS_MAXIMUM_COUNT,          \* 10
          Name,              \* names clients give secret accounts
          FullName,          \* those of ACCOUNT_NAME_LENGTH characters: name[]
                             \* has no room for the NUL behind them
          Key,               \* private keys; each has its own address
          ZeroKey,           \* those whose first byte is 0
          LocalAddress,      \* addresses clients add to m_accounts
          Password,          \* passwords of the wallet
          WalletCalls        \* "free": s_account_free; "freeall": s_wallet_free;
                             \* "short": the disk may be full; "crash": the
                             \* program may end at any time

ASSUME AccountsAssumption ==
  /\ SECRET_ACCOUNTS_MAXIMUM_COUNT \in Nat \ {0}
  /\ ACCOUNTS_MAXIMUM_COUNT \in Nat
  /\ "none" \notin Key          \* None, below
  /\ FullName \subseteq Name /\ ZeroKey \subseteq Key
  /\ WalletCalls \subseteq {"free", "freeall", "short", "crash"}

VARIABLES s_accounts,    \* the wallet
          heap,          \* the address in each malloc'ed account_info_t
          handle,        \* the copy of a secret account a client has
          m_accounts,    \* the local accounts: an address, or None
          file,          \* the wallet file
          saving,        \* the image being written, between fopen and fclose
          saved,         \* the wallet as last saved with VTC_SUCCESS
          crashed,       \* a NULL pointer was followed or memory overwritten
          unasked        \* history: names given without asking whether they exist

walletVars == <<s_accounts, heap, handle, file, saving, saved, unasked>>
vars == <<s_accounts, heap, handle, m_accounts, file, saving, saved, crashed, unasked>>

Slot == 0 .. SECRET_ACCOUNTS_MAXIMUM_COUNT - 1
Local == 0 .. ACCOUNTS_MAXIMUM_COUNT - 1
Cell == 0 .. SECRET_ACCOUNTS_MAXIMUM_COUNT    \* those a slot or the client points to
None == "none"                  \* an empty slot, name, key or address
NULL == -1

Free == [name |-> None, key |-> None, vtc_account |-> NULL]
SecretAccount == [name : Name \cup {None}, key : Key \cup {None}, vtc_account : Cell \cup {NULL}]
Added(s) == s_accounts[s].key # None          \* status is ACCOUNT_ADDED

(* What save_account_data encrypts: the slots and what they point to. *)
Image == [Slot -> [name : Name \cup {None}, key : Key \cup {None}, address : Key \cup {None}]]
EmptyImage == [s \in Slot |-> [name |-> None, key |-> None, address |-> None]]
ImageOf(accounts, cells) ==
  [s \in Slot |-> [name |-> accounts[s].name, key |-> accounts[s].key,
                   address |-> cells[accounts[s].vtc_account]]]

(* malloc for every slot gives cells that are not the client's.  (Cells    *)
(* that nobody points to any more are lost, and stand for new ones here.)  *)
FreshShared == [s \in Slot |-> IF handle.vtc_account = 0 THEN 1 ELSE 0]   \* mutants: one cell
FreshStatic == [s \in Slot |-> s]                         \* for all; the same again
Fresh == [s \in Slot |-> IF s < handle.vtc_account THEN s ELSE s + 1]

(* The wallet that has an image's accounts in newly malloc'ed cells. *)
Restored(image) ==
  [s \in Slot |-> [name |-> image[s].name, key |-> image[s].key, vtc_account |-> Fresh[s]]]
RestoredHeap(image) ==
  [c \in Cell |-> IF \E s \in Slot : Fresh[s] = c
                  THEN image[CHOOSE s \in Slot : Fresh[s] = c].address ELSE heap[c]]

(* mutant: the slots get their cells and are not zeroed *)
WalletKept ==
  /\ s_accounts' = [s \in Slot |-> [s_accounts[s] EXCEPT !.vtc_account = Fresh[s]]]
  /\ heap' = RestoredHeap(EmptyImage)

(* s_account_init: every slot is zeroed and gets a new, zeroed cell *)
Cleared == s_accounts' = Restored(EmptyImage) /\ heap' = RestoredHeap(EmptyImage)

(* A truncated file is found to be unreadable when it is decrypted. *)
NoFile == [kind |-> "absent", pw |-> None, image |-> EmptyImage]
Unreadable == [kind |-> "unreadable", pw |-> None, image |-> EmptyImage]
FileState == [kind : {"absent", "unreadable", "whole"}, pw : Password \cup {None}, image : Image]
Written(password, image) == [kind |-> "whole", pw |-> password, image |-> image]

(* static memory, then vertices_new: account_init and s_account_init *)
NewWallet == [s \in Slot |-> [name |-> None, key |-> None, vtc_account |-> s]]
NewHeap == [c \in Cell |-> None]
NoAccounts == [i \in Local |-> None]

Init ==
  /\ s_accounts = NewWallet /\ heap = NewHeap /\ handle = Free
  /\ m_accounts = NoAccounts
  /\ file = NoFile /\ saving = NoFile /\ saved = EmptyImage
  /\ crashed = FALSE
  /\ unasked = {}
-----------------------------------------------------------------------------
Idle == ~crashed /\ saving = NoFile

LocalFree(i) == m_accounts[i] = None /\ \A j \in Local : m_accounts[j] = None => i <= j

(* account_new: the slot is taken before the node is asked, and stays      *)
(* taken when that failed.                                                 *)
account_new(i, address) ==
  /\ Idle
  /\ LocalFree(i)
  /\ m_accounts' = [m_accounts EXCEPT ![i] = address]
  /\ UNCHANGED <<walletVars, crashed>>

(* The client's pointer may be to a slot that s_wallet_free has cleared.   *)
account_free(i) ==
  /\ Idle
  /\ m_accounts' = [m_accounts EXCEPT ![i] = None]
  /\ UNCHANGED <<walletVars, crashed>>

(* strcmp on name[]: a name that fills it goes on into the private key of  *)
(* the next slot, and is found only where that begins with a 0.  Behind    *)
(* the last slot is memory of which nothing is known.                      *)
Ends(s, behind) ==
  IF s + 1 \in Slot THEN s_accounts[s + 1].key \in ZeroKey \cup {None} ELSE behind

NameMatches(s, name, behind) ==
  Added(s) /\ s_accounts[s].name = name /\ (name \in FullName => Ends(s, behind))

(* mutant: the search begins at the second slot *)
ExistsAfterFirst(name, behind) == \E s \in Slot \ {0} : NameMatches(s, name, behind)
s_account_exists(name, behind) == \E s \in Slot : NameMatches(s, name, behind)

FirstFree(s) == ~Added(s) /\ \A t \in Slot : ~Added(t) => s <= t

(* vertices_s_account_new_from_mnemonic asks whether the name exists,      *)
(* vertices_s_account_new_from_keys does not.                              *)
MayName(name, asked) == asked => \E behind \in BOOLEAN : ~s_account_exists(name, behind)

(* s_account_new, whether or not the node could be asked for the balance:  *)
(* the account stays in the wallet and the client gets its copy.           *)
s_account_new(s, name, key, asked) ==
  /\ Idle
  /\ MayName(name, asked)
  /\ FirstFree(s)
  /\ s_accounts[s].vtc_account # NULL
  /\ s_accounts' = [s_accounts EXCEPT ![s].name = name, ![s].key = key]
  /\ heap' = [heap EXCEPT ![s_accounts[s].vtc_account] = key]
  /\ handle' = s_accounts'[s]
  /\ unasked' = IF asked THEN unasked ELSE unasked \cup {name}
  /\ UNCHANGED <<m_accounts, file, saving, saved, crashed>>

(* The free slot has lost its account_info_t: from_b32_init writes to NULL *)
NewInFreedSlot(s) ==
  /\ Idle
  /\ FirstFree(s)
  /\ s_accounts[s].vtc_account = NULL
  /\ crashed' = TRUE
  /\ UNCHANGED <<walletVars, m_accounts>>

(* A name too long for name[], which only the mnemonic's way refuses, is   *)
(* written on into the next slot or behind the last: the program is given  *)
(* up there, as where it follows NULL.                                     *)
NameOverruns(s) ==
  /\ Idle
  /\ FirstFree(s)
  /\ s_accounts[s].vtc_account # NULL
  /\ crashed' = TRUE
  /\ UNCHANGED <<walletVars, m_accounts>>

(* The first slot that matches *)
s_account_get_by_name(s, name, behind) ==
  /\ Idle
  /\ NameMatches(s, name, behind)
  /\ \A t \in Slot : t < s => ~NameMatches(t, name, behind)
  /\ handle' = s_accounts[s]
  /\ UNCHANGED <<s_accounts, heap, m_accounts, file, saving, saved, crashed, unasked>>

(* memset of the whole slot, the pointer to its account_info_t included    *)
s_account_free(s) ==
  /\ Idle
  /\ "free" \in WalletCalls
  /\ s_accounts' = [s_accounts EXCEPT ![s] = Free]
  /\ UNCHANGED <<heap, handle, m_accounts, file, saving, saved, crashed, unasked>>

(* s_wallet_free clears m_accounts, as far as s_accounts would reach.      *)
s_wallet_free ==
  /\ Idle
  /\ "freeall" \in WalletCalls
  /\ m_accounts' = [i \in Local |-> IF i \in Slot THEN None ELSE m_accounts[i]]
  /\ UNCHANGED <<s_accounts, heap, handle, file, saving, saved, crashed, unasked>>

vertices_wallet_init ==
  /\ Idle
  /\ Cleared
  /\ UNCHANGED <<handle, m_accounts, file, saving, saved, crashed, unasked>>

(* vertices_new, called again: account_init and s_account_init             *)
vertices_new ==
  /\ Idle
  /\ Cleared
  /\ m_accounts' = NoAccounts
  /\ UNCHANGED <<handle, file, saving, saved, crashed, unasked>>
-----------------------------------------------------------------------------
(* save_account_data: fopen for writing empties the file.  Nothing changes *)
(* when libsodium does not start, no key is derived or fopen fails.        *)
SaveBegins(pw) ==
  /\ Idle
  /\ \A s \in Slot : s_accounts[s].vtc_account # NULL
  /\ saving' = Written(pw, ImageOf(s_accounts, heap))
  /\ file' = Unreadable
  /\ UNCHANGED <<s_accounts, heap, handle, m_accounts, saved, crashed, unasked>>

SaveReadsNull ==
  /\ Idle
  /\ \E s \in Slot : s_accounts[s].vtc_account = NULL
  /\ crashed' = TRUE
  /\ UNCHANGED <<walletVars, m_accounts>>

(* The results of fwrite and fclose are not looked at. *)
SaveEnds ==
  /\ saving # NoFile
  /\ \/ file' = saving
     \/ "short" \in WalletCalls /\ file' = Unreadable
  /\ saved' = saving.image
  /\ saving' = NoFile
  /\ UNCHANGED <<s_accounts, heap, handle, m_accounts, crashed, unasked>>

(* vertices_wallet_load: s_account_init, whatever the file holds, and then *)
(* the accounts of the file if the password opens it and nothing fails     *)
Opens(pw) == file.kind = "whole" /\ file.pw = pw

vertices_wallet_load(pw, result) ==
  /\ Idle
  /\ \/ /\ result = "SUCCESS"
        /\ Opens(pw)
        /\ s_accounts' = Restored(file.image)
        /\ heap' = RestoredHeap(file.image)
     \/ result = "INTERNAL" /\ Cleared
  /\ UNCHANGED <<handle, m_accounts, file, saving, saved, crashed, unasked>>

(* The program ended, or crashed, and is started again. *)
Restart ==
  /\ crashed \/ "crash" \in WalletCalls
  /\ s_accounts' = NewWallet /\ heap' = NewHeap /\ handle' = Free
  /\ m_accounts' = NoAccounts
  /\ saving' = NoFile /\ crashed' = FALSE
  /\ UNCHANGED <<file, saved, unasked>>

Next ==
  \/ \E i \in Local : account_free(i) \/ \E a \in LocalAddress : account_new(i, a)
  \/ \E s \in Slot, n \in Name, k \in Key, asked \in BOOLEAN : s_account_new(s, n, k, asked)
  \/ \E s \in Slot : NewInFreedSlot(s) \/ NameOverruns(s) \/ s_account_free(s)
  \/ \E s \in Slot, n \in Name, behind \in BOOLEAN : s_account_get_by_name(s, n, behind)
  \/ s_wallet_free
  \/ vertices_wallet_init
  \/ vertices_new
  \/ \E pw \in Password : SaveBegins(pw)
  \/ \E pw \in Password, result \in {"SUCCESS", "INTERNAL"} : vertices_wallet_load(pw, result)
  \/ SaveReadsNull
  \/ SaveEnds
  \/ Restart

Spec == Init /\ [][Next]_vars
=============================================================================
