--------------------------- MODULE AccountsProofs ---------------------------
(* The wallet for every number of slots, accounts, clients' calls, full    *)
(* disks and crashes.                                                      *)
EXTENDS AccountsProps, TLAPS

(* What a saved image must have so that loading it gives a proper wallet.  *)
ImageKeysMatch(image) == \A s \in Slot : image[s].address = image[s].key
ImageUnique(image) ==
  \A s, t \in Slot :
    image[s].key # None /\ image[t].key # None /\ image[s].name = image[t].name
      => s = t \/ image[s].name \in FullName \cup unasked

FilesMatch ==
  /\ ImageKeysMatch(file.image) /\ ImageKeysMatch(saving.image)
  /\ file.kind = "whole" => file.image = saved

NamesInv == UniqueNames /\ ImageUnique(file.image) /\ ImageUnique(saving.image)

WalletInv == TypeOK /\ KeysMatch /\ HandleKeepsItsAccount /\ FilesMatch /\ NamesInv
-----------------------------------------------------------------------------
(* The new cells are cells, not the client's, and each slot's own.         *)
LEMMA FreshCells ==
  ASSUME TypeOK
  PROVE  /\ Fresh \in [Slot -> Cell]
         /\ \A s \in Slot : Fresh[s] # handle.vtc_account /\ Fresh[s] # NULL
         /\ \A s, t \in Slot : Fresh[s] = Fresh[t] => s = t
<1>1. /\ SECRET_ACCOUNTS_MAXIMUM_COUNT \in Nat
      /\ handle.vtc_account \in Int
  BY AccountsAssumption DEF TypeOK, SecretAccount, Cell, NULL
<1> QED BY <1>1 DEF Fresh, Slot, Cell, NULL

LEMMA EmptyImages == EmptyImage \in Image /\ ImageKeysMatch(EmptyImage) /\ ImageUnique(EmptyImage)
  BY DEF EmptyImage, Image, ImageKeysMatch, ImageUnique

(* Restoring an image gives a wallet with this image and leaves what the   *)
(* client points to alone.                                                 *)
LEMMA RestoreGivesImage ==
  ASSUME TypeOK, NEW image \in Image
  PROVE  /\ Restored(image) \in [Slot -> SecretAccount]
         /\ RestoredHeap(image) \in [Cell -> Key \cup {None}]
         /\ \A s \in Slot : /\ Restored(image)[s].vtc_account = Fresh[s]
                            /\ Restored(image)[s].name = image[s].name
                            /\ Restored(image)[s].key = image[s].key
                            /\ RestoredHeap(image)[Fresh[s]] = image[s].address
         /\ \A c \in Cell : c = handle.vtc_account => RestoredHeap(image)[c] = heap[c]
<1>1. \A s \in Slot : /\ image[s].name \in Name \cup {None}
                      /\ image[s].key \in Key \cup {None}
                      /\ image[s].address \in Key \cup {None}
  BY DEF Image
<1>2. Restored(image) \in [Slot -> SecretAccount]
  BY <1>1, FreshCells DEF Restored, SecretAccount
<1>3. ASSUME NEW c \in Cell
      PROVE  /\ RestoredHeap(image)[c] \in Key \cup {None}
             /\ \A s \in Slot : Fresh[s] = c => RestoredHeap(image)[c] = image[s].address
             /\ c = handle.vtc_account => RestoredHeap(image)[c] = heap[c]
  <2> DEFINE t == CHOOSE t \in Slot : Fresh[t] = c
  <2>1. RestoredHeap(image)[c] = IF \E s \in Slot : Fresh[s] = c THEN image[t].address ELSE heap[c]
    BY <1>3 DEF RestoredHeap
  <2>2. CASE \E s \in Slot : Fresh[s] = c
    <3>1. t \in Slot /\ Fresh[t] = c
      BY <2>2
    <3> HIDE DEF t
    <3> QED BY <1>1, <2>1, <2>2, <3>1, FreshCells
  <2>3. CASE ~\E s \in Slot : Fresh[s] = c
    BY <2>1, <2>3 DEF TypeOK
  <2> QED BY <2>2, <2>3
<1>4. RestoredHeap(image) \in [Cell -> Key \cup {None}]
  <2>1. RestoredHeap(image) = [c \in Cell |-> RestoredHeap(image)[c]]
    BY DEF RestoredHeap
  <2> QED BY <2>1, <1>3
<1>5. \A s \in Slot : Fresh[s] \in Cell
  BY FreshCells
<1> QED BY <1>2, <1>3, <1>4, <1>5 DEF Restored

(* Loading or clearing keeps keys and addresses together.                  *)
LEMMA RestoreKeeps ==
  ASSUME WalletInv, NEW image \in Image, ImageKeysMatch(image),
         s_accounts' = Restored(image), heap' = RestoredHeap(image),
         UNCHANGED <<handle, unasked>>
  PROVE  /\ s_accounts' \in [Slot -> SecretAccount]
         /\ heap' \in [Cell -> Key \cup {None}]
         /\ KeysMatch' /\ HandleKeepsItsAccount'
         /\ ImageUnique(image) => UniqueNames'
<1>1. TypeOK
  BY DEF WalletInv
<1>2. handle.vtc_account # NULL => handle.vtc_account \in Cell
  BY <1>1 DEF TypeOK, SecretAccount
<1>3. KeysMatch'
  <2>1. \A s \in Slot : heap'[s_accounts'[s].vtc_account] = s_accounts'[s].key
    BY <1>1, RestoreGivesImage DEF ImageKeysMatch
  <2>2. \A s, t \in Slot : s_accounts'[t].vtc_account = s_accounts'[s].vtc_account => s = t
    BY <1>1, RestoreGivesImage, FreshCells
  <2> QED BY <2>1, <2>2 DEF KeysMatch
<1>4. HandleKeepsItsAccount'
  BY <1>1, <1>2, RestoreGivesImage DEF WalletInv, HandleKeepsItsAccount
<1>5. ImageUnique(image) => UniqueNames'
  BY <1>1, RestoreGivesImage DEF ImageUnique, UniqueNames, Added
<1> QED BY <1>1, <1>3, <1>4, <1>5, RestoreGivesImage

LEMMA InitWallet == Init => WalletInv
<1> SUFFICES ASSUME Init PROVE WalletInv
  OBVIOUS
<1>1. NewWallet \in [Slot -> SecretAccount] /\ NewHeap \in [Cell -> Key \cup {None}]
  BY AccountsAssumption DEF NewWallet, NewHeap, SecretAccount, Slot, Cell
<1>2. Free \in SecretAccount /\ NoFile \in FileState
  BY EmptyImages DEF Free, SecretAccount, NoFile, FileState
<1>3. TypeOK
  BY <1>1, <1>2, EmptyImages DEF Init, TypeOK, NoAccounts
<1>4. KeysMatch /\ HandleKeepsItsAccount /\ UniqueNames
  BY AccountsAssumption
     DEF Init, KeysMatch, HandleKeepsItsAccount, UniqueNames, NewWallet, NewHeap, Free, Slot,
         Cell, Added
<1>5. FilesMatch /\ NamesInv
  BY <1>4, EmptyImages DEF Init, FilesMatch, NamesInv, NoFile
<1> QED BY <1>3, <1>4, <1>5 DEF WalletInv

(* An account goes into a free slot and into the cell of this slot.        *)
LEMMA NewKeeps ==
  ASSUME WalletInv, NEW s \in Slot, NEW name \in Name, NEW key \in Key,
         NEW asked \in BOOLEAN, s_account_new(s, name, key, asked)
  PROVE  WalletInv'
<1> DEFINE c == s_accounts[s].vtc_account
<1>1. /\ s_accounts' = [s_accounts EXCEPT ![s].name = name, ![s].key = key]
      /\ heap' = [heap EXCEPT ![c] = key]
      /\ handle' = s_accounts'[s]
      /\ UNCHANGED <<m_accounts, file, saving, saved, crashed>>
      /\ unasked' = IF asked THEN unasked ELSE unasked \cup {name}
      /\ MayName(name, asked)
      /\ c # NULL
  BY DEF s_account_new
<1>2. /\ s_accounts \in [Slot -> SecretAccount] /\ heap \in [Cell -> Key \cup {None}]
      /\ TypeOK
  BY DEF WalletInv, TypeOK
<1>3. /\ s_accounts' \in [Slot -> SecretAccount]
      /\ s_accounts'[s].name = name /\ s_accounts'[s].key = key
      /\ s_accounts'[s].vtc_account = c
      /\ \A t \in Slot : t # s => s_accounts'[t] = s_accounts[t]
  BY <1>1, <1>2 DEF SecretAccount
<1>4. c \in Cell
  BY <1>1, <1>2 DEF SecretAccount
<1>5. heap' \in [Cell -> Key \cup {None}] /\ heap'[c] = key
      /\ \A d \in Cell : d # c => heap'[d] = heap[d]
  BY <1>1, <1>2, <1>4
<1>6. TypeOK'
  BY <1>1, <1>2, <1>3, <1>5 DEF TypeOK
<1>7. KeysMatch'
  <2>1. \A t \in Slot : t # s /\ s_accounts[t].vtc_account # NULL
                         => /\ s_accounts[t].vtc_account \in Cell
                            /\ s_accounts[t].vtc_account # c
    BY <1>1, <1>2 DEF WalletInv, KeysMatch, SecretAccount
  <2> HIDE DEF c
  <2> QED BY <1>1, <1>3, <1>5, <2>1 DEF WalletInv, KeysMatch
<1>8. HandleKeepsItsAccount'
  BY <1>1, <1>3, <1>5 DEF HandleKeepsItsAccount
<1>9. FilesMatch'
  BY <1>1 DEF WalletInv, FilesMatch
<1>10. NamesInv'
  <2>1. unasked \subseteq unasked' /\ (asked \/ name \in unasked')
    BY <1>1
  <2>2. name \in FullName \cup unasked' \/ \A t \in Slot : Added(t) => s_accounts[t].name # name
    BY <1>1, <2>1 DEF MayName, s_account_exists, NameMatches
  <2>3. UniqueNames'
    BY <1>3, <2>1, <2>2 DEF WalletInv, NamesInv, UniqueNames, ImageUnique, Added
  <2>4. ImageUnique(file.image)' /\ ImageUnique(saving.image)'
    BY <1>1, <2>1 DEF WalletInv, NamesInv, ImageUnique
  <2> QED BY <2>3, <2>4 DEF NamesInv
<1> QED BY <1>6, <1>7, <1>8, <1>9, <1>10 DEF WalletInv

(* Freeing a slot and copying an account *)
LEMMA FreeKeeps ==
  ASSUME WalletInv, NEW s \in Slot, s_account_free(s)
  PROVE  WalletInv'
<1>1. /\ s_accounts' = [s_accounts EXCEPT ![s] = Free]
      /\ UNCHANGED <<heap, handle, m_accounts, file, saving, saved, crashed, unasked>>
  BY DEF s_account_free
<1>2. Free \in SecretAccount /\ s_accounts \in [Slot -> SecretAccount]
  BY DEF Free, SecretAccount, WalletInv, TypeOK
<1>3. /\ s_accounts' \in [Slot -> SecretAccount] /\ s_accounts'[s] = Free
      /\ \A t \in Slot : t # s => s_accounts'[t] = s_accounts[t]
  BY <1>1, <1>2
<1>4. TypeOK'
  BY <1>1, <1>3 DEF WalletInv, TypeOK
<1>5. KeysMatch' /\ HandleKeepsItsAccount'
  BY <1>1, <1>3 DEF WalletInv, KeysMatch, HandleKeepsItsAccount, Free
<1>6. FilesMatch' /\ NamesInv'
  BY <1>1, <1>3 DEF WalletInv, FilesMatch, NamesInv, UniqueNames, ImageUnique, Added, Free
<1> QED BY <1>4, <1>5, <1>6 DEF WalletInv

LEMMA GetKeeps ==
  ASSUME WalletInv, NEW s \in Slot, NEW name \in Name, NEW behind \in BOOLEAN,
         s_account_get_by_name(s, name, behind)
  PROVE  WalletInv'
<1>1. /\ handle' = s_accounts[s]
      /\ UNCHANGED <<s_accounts, heap, m_accounts, file, saving, saved, crashed, unasked>>
  BY DEF s_account_get_by_name
<1>2. TypeOK' /\ KeysMatch' /\ HandleKeepsItsAccount'
  BY <1>1 DEF WalletInv, TypeOK, KeysMatch, HandleKeepsItsAccount
<1>3. FilesMatch' /\ NamesInv'
  BY <1>1 DEF WalletInv, FilesMatch, NamesInv, UniqueNames, ImageUnique, Added
<1> QED BY <1>2, <1>3 DEF WalletInv

(* Clearing and loading *)
LEMMA LoadKeeps ==
  ASSUME WalletInv, NEW image \in Image, ImageKeysMatch(image), ImageUnique(image),
         s_accounts' = Restored(image), heap' = RestoredHeap(image),
         m_accounts' \in [Local -> LocalAddress \cup {None}],
         UNCHANGED <<handle, file, saving, saved, crashed, unasked>>
  PROVE  WalletInv'
<1>1. /\ s_accounts' \in [Slot -> SecretAccount] /\ heap' \in [Cell -> Key \cup {None}]
      /\ KeysMatch' /\ HandleKeepsItsAccount' /\ (ImageUnique(image) => UniqueNames')
  BY RestoreKeeps
<1>2. TypeOK'
  BY <1>1 DEF WalletInv, TypeOK
<1>3. FilesMatch' /\ NamesInv'
  BY <1>1 DEF WalletInv, FilesMatch, NamesInv, ImageUnique
<1> QED BY <1>1, <1>2, <1>3 DEF WalletInv

(* The image of a wallet in which no slot lacks its account_info_t.        *)
LEMMA ImageOfWallet ==
  ASSUME WalletInv, \A s \in Slot : s_accounts[s].vtc_account # NULL
  PROVE  /\ ImageOf(s_accounts, heap) \in Image
         /\ ImageKeysMatch(ImageOf(s_accounts, heap))
         /\ ImageUnique(ImageOf(s_accounts, heap))
<1>1. \A s \in Slot : s_accounts[s] \in SecretAccount /\ s_accounts[s].vtc_account \in Cell
  BY DEF WalletInv, TypeOK, SecretAccount
<1>2. ImageOf(s_accounts, heap) \in Image
  BY <1>1 DEF ImageOf, Image, WalletInv, TypeOK, SecretAccount
<1>3. ImageKeysMatch(ImageOf(s_accounts, heap))
  BY DEF ImageOf, ImageKeysMatch, WalletInv, KeysMatch
<1>4. ImageUnique(ImageOf(s_accounts, heap))
  BY DEF ImageOf, ImageUnique, WalletInv, NamesInv, UniqueNames, Added
<1> QED BY <1>2, <1>3, <1>4

LEMMA SaveKeeps ==
  ASSUME WalletInv, SaveEnds \/ \E pw \in Password : SaveBegins(pw)
  PROVE  WalletInv'
<1>0. Unreadable \in FileState /\ Unreadable.kind = "unreadable" /\ Unreadable.image = EmptyImage
  BY EmptyImages DEF Unreadable, FileState
<1>1. ASSUME NEW pw \in Password, SaveBegins(pw) PROVE WalletInv'
  <2> DEFINE image == ImageOf(s_accounts, heap)
  <2>1. image \in Image /\ ImageKeysMatch(image) /\ ImageUnique(image)
    BY <1>1, ImageOfWallet DEF SaveBegins
  <2>2. /\ saving' = Written(pw, image) /\ file' = Unreadable
        /\ UNCHANGED <<s_accounts, heap, handle, m_accounts, saved, crashed, unasked>>
    BY <1>1 DEF SaveBegins
  <2> HIDE DEF image
  <2>3. Written(pw, image) \in FileState /\ Written(pw, image).image = image
    BY <2>1 DEF Written, FileState
  <2>4. TypeOK' /\ KeysMatch' /\ HandleKeepsItsAccount'
    BY <1>0, <2>2, <2>3 DEF WalletInv, TypeOK, KeysMatch, HandleKeepsItsAccount
  <2>5. FilesMatch'
    BY <1>0, <2>1, <2>2, <2>3, EmptyImages DEF FilesMatch
  <2>6. NamesInv'
    BY <1>0, <2>1, <2>2, <2>3, EmptyImages DEF WalletInv, NamesInv, UniqueNames, ImageUnique, Added
  <2> QED BY <2>4, <2>5, <2>6 DEF WalletInv
<1>2. ASSUME SaveEnds PROVE WalletInv'
  <2>1. /\ file' = saving \/ file' = Unreadable
        /\ saved' = saving.image /\ saving' = NoFile
        /\ UNCHANGED <<s_accounts, heap, handle, m_accounts, crashed, unasked>>
    BY <1>2 DEF SaveEnds
  <2>2. NoFile \in FileState /\ NoFile.image = EmptyImage
    BY EmptyImages DEF NoFile, FileState
  <2>3. saving.image \in Image
    BY DEF WalletInv, TypeOK, FileState
  <2>4. TypeOK' /\ KeysMatch' /\ HandleKeepsItsAccount'
    BY <1>0, <2>1, <2>2, <2>3 DEF WalletInv, TypeOK, KeysMatch, HandleKeepsItsAccount
  <2>5. FilesMatch'
    BY <1>0, <2>1, <2>2, EmptyImages DEF WalletInv, FilesMatch
  <2>6. NamesInv'
    BY <1>0, <2>1, <2>2, EmptyImages DEF WalletInv, NamesInv, UniqueNames, ImageUnique, Added
  <2> QED BY <2>4, <2>5, <2>6 DEF WalletInv
<1> QED BY <1>1, <1>2

(* A new process has an empty wallet and the old file.                     *)
LEMMA RestartKeeps ==
  ASSUME WalletInv, Restart
  PROVE  WalletInv'
<1>0. /\ s_accounts' = NewWallet /\ heap' = NewHeap /\ handle' = Free
      /\ m_accounts' = NoAccounts
      /\ saving' = NoFile /\ crashed' = FALSE
      /\ UNCHANGED <<file, saved, unasked>>
  BY DEF Restart
<1>1. NewWallet \in [Slot -> SecretAccount] /\ NewHeap \in [Cell -> Key \cup {None}]
  BY AccountsAssumption DEF NewWallet, NewHeap, SecretAccount, Slot, Cell
<1>2. Free \in SecretAccount /\ NoFile \in FileState /\ NoFile.image = EmptyImage
  BY EmptyImages DEF Free, SecretAccount, NoFile, FileState
<1>3. TypeOK'
  BY <1>0, <1>1, <1>2 DEF WalletInv, TypeOK, NoAccounts
<1>4. KeysMatch' /\ HandleKeepsItsAccount' /\ UniqueNames'
  BY <1>0, AccountsAssumption
     DEF KeysMatch, HandleKeepsItsAccount, UniqueNames, NewWallet, NewHeap, Free, Slot, Cell, Added
<1>5. FilesMatch' /\ NamesInv'
  BY <1>0, <1>2, <1>4, EmptyImages DEF WalletInv, FilesMatch, NamesInv, ImageUnique
<1> QED BY <1>3, <1>4, <1>5 DEF WalletInv

(* The other calls leave the wallet and its file alone.                    *)
LEMMA OthersKeep ==
  ASSUME WalletInv, UNCHANGED walletVars,
         m_accounts' \in [Local -> LocalAddress \cup {None}],
         crashed' \in BOOLEAN
  PROVE  WalletInv'
<1>1. TypeOK'
  BY DEF WalletInv, TypeOK, walletVars
<1>2. KeysMatch' /\ HandleKeepsItsAccount' /\ FilesMatch' /\ NamesInv'
  BY DEF WalletInv, KeysMatch, HandleKeepsItsAccount, FilesMatch, NamesInv, UniqueNames,
         ImageUnique, Added, walletVars
<1> QED BY <1>1, <1>2 DEF WalletInv

LEMMA StepWallet == WalletInv /\ [Next]_vars => WalletInv'
<1> SUFFICES ASSUME WalletInv, [Next]_vars PROVE WalletInv'
  OBVIOUS
<1>0. m_accounts \in [Local -> LocalAddress \cup {None}] /\ crashed \in BOOLEAN
  BY DEF WalletInv, TypeOK
<1>1. ASSUME NEW i \in Local, account_free(i) PROVE WalletInv'
  BY <1>0, <1>1, OthersKeep DEF account_free
<1>2. ASSUME NEW i \in Local, NEW a \in LocalAddress, account_new(i, a)
      PROVE  WalletInv'
  BY <1>0, <1>2, OthersKeep DEF account_new
<1>3. ASSUME NEW s \in Slot, NewInFreedSlot(s) \/ NameOverruns(s) PROVE WalletInv'
  BY <1>0, <1>3, OthersKeep DEF NewInFreedSlot, NameOverruns
<1>4. ASSUME s_wallet_free \/ SaveReadsNull \/ UNCHANGED vars
      PROVE  WalletInv'
  BY <1>0, <1>4, OthersKeep
     DEF s_wallet_free, SaveReadsNull, vars, walletVars
<1>0a. /\ m_accounts \in [Local -> LocalAddress \cup {None}]
       /\ NoAccounts \in [Local -> LocalAddress \cup {None}]
  BY DEF WalletInv, TypeOK, NoAccounts
<1>5. ASSUME vertices_wallet_init PROVE WalletInv'
  BY <1>5, <1>0a, EmptyImages, LoadKeeps DEF vertices_wallet_init, Cleared
<1>6. ASSUME vertices_new PROVE WalletInv'
  BY <1>6, <1>0a, EmptyImages, LoadKeeps DEF vertices_new, Cleared
<1>7. ASSUME NEW pw \in Password, NEW result \in {"SUCCESS", "INTERNAL"},
             vertices_wallet_load(pw, result)
      PROVE  WalletInv'
  <2>1. CASE Opens(pw) /\ s_accounts' = Restored(file.image) /\ heap' = RestoredHeap(file.image)
    <3>1. file.image \in Image /\ ImageKeysMatch(file.image) /\ ImageUnique(file.image)
      BY DEF WalletInv, TypeOK, FileState, FilesMatch, NamesInv
    <3> QED BY <1>7, <1>0a, <2>1, <3>1, LoadKeeps DEF vertices_wallet_load
  <2>2. CASE Cleared
    BY <1>7, <1>0a, <2>2, EmptyImages, LoadKeeps DEF vertices_wallet_load, Cleared
  <2> QED BY <1>7, <2>1, <2>2 DEF vertices_wallet_load
<1> QED
  BY <1>1, <1>2, <1>3, <1>4, <1>5, <1>6, <1>7, NewKeeps, FreeKeeps, GetKeeps, SaveKeeps, RestartKeeps
     DEF Next
-----------------------------------------------------------------------------
(* The types of Accounts, and that every account of the wallet keeps key   *)
(* and address together, in memory that is its own, through saves, loads,  *)
(* full disks and crashes.                                                 *)
THEOREM WalletKeepsKeys == Spec => [](TypeOK /\ KeysMatch)
<1>1. WalletInv => TypeOK /\ KeysMatch
  BY DEF WalletInv
<1> QED BY <1>1, InitWallet, StepWallet, PTL DEF Spec

(* vertices_wallet_load (vertices.c:409-418) gives the wallet the last     *)
(* successful save had, or an empty one.                                   *)
THEOREM LoadIsAllOrNothing == Spec => LoadGivesSavedOrNothing
<1>1. ASSUME WalletInv, NEW image \in Image,
             s_accounts' = Restored(image), heap' = RestoredHeap(image)
      PROVE  ImageOf(s_accounts', heap') = image
  <2>1. TypeOK
    BY <1>1 DEF WalletInv
  <2>2. ImageOf(s_accounts', heap') =
          [s \in Slot |-> [name |-> image[s].name, key |-> image[s].key,
                           address |-> image[s].address]]
    BY <1>1, <2>1, RestoreGivesImage DEF ImageOf
  <2> QED BY <2>2 DEF Image
<1>2. ASSUME WalletInv, NEW pw \in Password, vertices_wallet_load(pw, "SUCCESS")
      PROVE  ImageOf(s_accounts', heap') = saved
  <2>1. file.image \in Image /\ file.image = saved
    BY <1>2 DEF WalletInv, TypeOK, FileState, FilesMatch, vertices_wallet_load, Opens
  <2> QED BY <1>1, <1>2, <2>1 DEF vertices_wallet_load
<1>3. ASSUME WalletInv, NEW pw \in Password, vertices_wallet_load(pw, "INTERNAL")
      PROVE  ImageOf(s_accounts', heap') = EmptyImage
  BY <1>1, <1>3, EmptyImages DEF vertices_wallet_load, Cleared
<1>4. WalletInv =>
        [\A pw \in Password :
           /\ vertices_wallet_load(pw, "SUCCESS") => ImageOf(s_accounts', heap') = saved
           /\ vertices_wallet_load(pw, "INTERNAL")
                => ImageOf(s_accounts', heap') = EmptyImage]_vars
  BY <1>2, <1>3
<1> QED BY <1>4, InitWallet, StepWallet, PTL DEF Spec, LoadGivesSavedOrNothing

(* No two accounts of the wallet have one name, whatever is freed, saved,  *)
(* loaded or lost in between, but for names given without asking whether   *)
(* they exist (vertices.c:140) and names that fill name[], which the       *)
(* wallet may hold twice (account.c:277).                                  *)
THEOREM NamesStayUnique == Spec => []UniqueNames
<1>1. WalletInv => UniqueNames
  BY DEF WalletInv, NamesInv
<1> QED BY <1>1, InitWallet, StepWallet, PTL DEF Spec

(* The copy s_account_get_by_name gave a client shows the address of its   *)
(* key whatever happens to the wallet: its account_info_t is never given   *)
(* back and no slot gets it again.                                         *)
THEOREM HandleStaysValid == Spec => []HandleKeepsItsAccount
<1>1. WalletInv => HandleKeepsItsAccount
  BY DEF WalletInv
<1> QED BY <1>1, InitWallet, StepWallet, PTL DEF Spec
=============================================================================
