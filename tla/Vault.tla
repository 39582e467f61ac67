-------------------------------- MODULE Vault -------------------------------
(***************************************************************************)
(* PasswordVaultService: the saved logins of one user, behind a password   *)
(* of their own.  The request tells which passwords it comes with: knows   *)
(* is whether the account password is right.                               *)
(***************************************************************************)
EXTENDS Requests, TLC

CONSTANT VaultStart

VARIABLE vault  \* hash: [password, by] of the vault password, sets: how often
                \*   it was set; entry: [owner, login, sealed] by id
                \* token: [hash, at] of the unlock each request got
                \* opened: [with, at] of each request that passed the guard
                \* wiped: the entries that resets have deleted

(* A new row is named after its request, so nothing at the start bears the *)
(* name of one or was made by one; who has unlocked the vault holds what   *)
(* the hash of the time was, and when that was set.                        *)
ASSUME VaultAssumption ==
    /\ DOMAIN VaultStart = {"hash", "sets", "entry", "token", "opened", "wiped"}
    /\ DOMAIN VaultStart.opened = Request
    /\ VaultStart.wiped = {}
    /\ \A r \in Request : VaultStart.opened[r] = Nothing /\ VaultStart.entry[r] = Nothing
    /\ VaultStart.hash # Nothing => VaultStart.hash.by \notin Request
    /\ \A q \in DOMAIN VaultStart.token :
         LET t == VaultStart.token[q]
         IN  t # Nothing => /\ t.hash.by \notin Request
                            /\ t.hash = VaultStart.hash => t.at = VaultStart.sets

VaultInit == vault = VaultStart

VaultStays == UNCHANGED vault

Saved == {i \in DOMAIN vault.entry : vault.entry[i] # Nothing}

Own(user) == {i \in Saved : vault.entry[i].owner = user}

Hashed(r, p) == [password |-> p, by |-> r]

WithVaultPassword(r) ==
    [vault EXCEPT !.hash = Hashed(r, body[r].password), !.sets = @ + 1]

(***************************************************************************)
(* The vault password                                                      *)
(***************************************************************************)
ReadHash(r) ==
    /\ At(r, "vault-password", "start")
    /\ Keep(r, "account", vault.hash)
    /\ VaultStays

(* requireAccountPassword(), then the current vault password against the   *)
(* hash that was read.                                                     *)
CheckPasswords(r) ==
    LET b == body[r]
    IN  /\ At(r, "vault-password", "account")
        /\ IF b.knows /\ (mem[r] # Nothing => b.current = mem[r].password)
           THEN Await(r, "set") ELSE Finish(r)
        /\ VaultStays

SetVaultPassword(r) ==
    /\ At(r, "vault-password", "set")
    /\ vault' = WithVaultPassword(r)
    /\ Finish(r)

ResetVault(r) ==
    /\ At(r, "reset-vault", "start")
    /\ IF body[r].knows THEN Await(r, "wipe") ELSE Finish(r)
    /\ VaultStays

(* The entries are deleted with the same commit.                           *)
WipeVault(r) ==
    /\ At(r, "reset-vault", "wipe")
    /\ LET gone == Own(body[r].user)
       IN  vault' = [WithVaultPassword(r) EXCEPT
                       !.entry = [i \in DOMAIN @ |-> IF i \in gone THEN Nothing ELSE @[i]],
                       !.wiped = @ \cup gone]
    /\ Finish(r)

UnlockVault(r) ==
    /\ At(r, "unlock", "start")
    /\ vault' = IF vault.hash = Nothing \/ vault.hash.password # body[r].password THEN vault
                ELSE [vault EXCEPT !.token[r] = [hash |-> vault.hash, at |-> vault.sets]]
    /\ Finish(r)

(***************************************************************************)
(* VaultAccessGuard, then the entries.  An unlock carries the fingerprint  *)
(* of the salted hash.                                                     *)
(***************************************************************************)
Fingerprint(hash) == hash

EntryOps == {"list", "save", "change-entry", "drop-entry"}

VaultGuard(r) ==
    /\ body[r].op \in EntryOps /\ pc[r] = "start"
    /\ \/ \E q \in DOMAIN vault.token :
            /\ vault.token[q] # Nothing
            /\ vault.hash # Nothing
            /\ Fingerprint(vault.token[q].hash) = Fingerprint(vault.hash)
            /\ vault' = [vault EXCEPT !.opened[r] = [with |-> vault.token[q].at, at |-> vault.sets]]
            /\ Await(r, "vault")
       \/ Finish(r) /\ VaultStays

(* list() seals the entries that were saved before sealing, as it has read *)
(* them.                                                                   *)
ListEntries(r) ==
    LET unsealed == {<<i, vault.entry[i]>> : i \in {j \in Own(body[r].user) : ~vault.entry[j].sealed}}
    IN  /\ At(r, "list", "vault")
        /\ IF unsealed = {} THEN Finish(r) ELSE Keep(r, "seal", unsealed)
        /\ VaultStays

SealRest(r, e) == IF mem[r] = {e} THEN Finish(r) ELSE Keep(r, "seal", mem[r] \ {e})

(* Bug: an entry that is not there is saved again.                         *)
SealUpsert(r) ==
    /\ At(r, "list", "seal")
    /\ \E e \in mem[r] :
        /\ vault' = [vault EXCEPT !.entry[e[1]] = [e[2] EXCEPT !.sealed = TRUE]]
        /\ SealRest(r, e)

(* The update of an entry that is gone fails, and the request with it.     *)
SealEntry(r) ==
    /\ At(r, "list", "seal")
    /\ \E e \in mem[r] :
        IF vault.entry[e[1]] = Nothing THEN Finish(r) /\ VaultStays
        ELSE /\ vault' = [vault EXCEPT !.entry[e[1]] = [e[2] EXCEPT !.sealed = TRUE]]
             /\ SealRest(r, e)

SaveEntry(r) ==
    /\ At(r, "save", "vault")
    /\ vault' = [vault EXCEPT !.entry[r] = [owner |-> body[r].user, login |-> body[r].login, sealed |-> TRUE]]
    /\ Finish(r)

(* assertOwnership(), before update() and remove().                        *)
FindEntry(r) ==
    LET row == vault.entry[body[r].id]
    IN  /\ body[r].op \in {"change-entry", "drop-entry"} /\ pc[r] = "vault"
        /\ IF row = Nothing \/ row.owner # body[r].user THEN Finish(r) ELSE Await(r, "entry")
        /\ VaultStays

ChangeEntry(r) ==
    LET b == body[r]
    IN  /\ At(r, "change-entry", "entry")
        /\ vault' = IF vault.entry[b.id] = Nothing THEN vault
                    ELSE [vault EXCEPT !.entry[b.id].login = b.login, !.entry[b.id].sealed = TRUE]
        /\ Finish(r)

DropEntry(r) ==
    /\ At(r, "drop-entry", "entry")
    /\ vault' = [vault EXCEPT !.entry[body[r].id] = Nothing]
    /\ Finish(r)

VaultStep(r) ==
    \/ ReadHash(r) \/ CheckPasswords(r) \/ SetVaultPassword(r) \/ ResetVault(r) \/ WipeVault(r)
    \/ UnlockVault(r) \/ VaultGuard(r) \/ ListEntries(r) \/ SealEntry(r) \/ SaveEntry(r)
    \/ FindEntry(r) \/ ChangeEntry(r) \/ DropEntry(r)

(***************************************************************************)
(* Properties                                                              *)
(***************************************************************************)

(* "An unlock made with a vault password that has since been changed or    *)
(* reset no longer opens the vault", and what a reset has deleted never    *)
(* comes back, though another request is still busy with it.               *)
ResetForgets ==
    /\ Saved \cap vault.wiped = {}
    /\ \A r \in Request : vault.opened[r] # Nothing => vault.opened[r].with = vault.opened[r].at
=============================================================================
