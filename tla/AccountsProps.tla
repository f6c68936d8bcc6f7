--------------------------- MODULE AccountsProps ---------------------------
(* The properties of Accounts. *)
EXTENDS Accounts

TypeOK ==
  /\ s_accounts \in [Slot -> SecretAccount]
  /\ heap \in [Cell -> Key \cup {None}]
  /\ handle \in SecretAccount
  /\ m_accounts \in [Local -> LocalAddress \cup {None}]
  /\ file \in FileState /\ saving \in FileState /\ saved \in Image
  /\ crashed \in BOOLEAN
  /\ unasked \subseteq Name

(* No two accounts of the wallet have the same name, however the wallet is *)
(* created, freed, saved, lost and loaded, but for names that were given   *)
(* with vertices_s_account_new_from_keys, which does not ask, and names of *)
(* ACCOUNT_NAME_LENGTH characters, which vertices.c:136 admits and         *)
(* s_account_exists may not find again (account.c:277).                    *)
UniqueNames ==
  \A s, t \in Slot :
    Added(s) /\ Added(t) /\ s_accounts[s].name = s_accounts[t].name
      => s = t \/ s_accounts[s].name \in FullName \cup unasked

(* Every account's account_info_t is its own and holds the address of its  *)
(* private key, so that what is paid from it is signed with its key.       *)
KeysMatch ==
  \A s \in Slot : s_accounts[s].vtc_account # NULL =>
    /\ heap[s_accounts[s].vtc_account] = s_accounts[s].key
    /\ \A t \in Slot : s_accounts[t].vtc_account = s_accounts[s].vtc_account => s = t

(* The copy a client got keeps pointing to the address of its key when the *)
(* wallet is cleared, loaded or its slot is used again.                    *)
HandleKeepsItsAccount == handle.vtc_account # NULL => heap[handle.vtc_account] = handle.key

(* A load gives the wallet as it was last saved, or an empty one: never a  *)
(* part of it, and never a mixture with what the memory held.              *)
LoadGivesSavedOrNothing ==
  [][\A pw \in Password :
       /\ vertices_wallet_load(pw, "SUCCESS") => ImageOf(s_accounts', heap') = saved
       /\ vertices_wallet_load(pw, "INTERNAL") => ImageOf(s_accounts', heap') = EmptyImage]_vars
=============================================================================
