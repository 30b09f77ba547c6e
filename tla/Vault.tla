-------------------------------- MODULE Vault --------------------------------
(***************************************************************************)
(* The signer's vault (src/src/nostr/vault.rs): one blob in the login      *)
(* keyring holding the wrapped key and the one-time pairing secrets still  *)
(* outstanding, and the copy of them in memory while the vault is open.    *)
(* Each operation loads the blob, changes it, saves it and only then sets  *)
(* the memory, so a keyring that refuses the load or the save leaves       *)
(* everything as it was; destroy clears the memory first.                  *)
(*                                                                         *)
(* Secrets are numbered in the order they are minted, which is their order *)
(* in the blob's list.                                                     *)
(***************************************************************************)
EXTENDS Naturals, FiniteSets

CONSTANTS
    Key,         \* secret keys a setup may bring
    NoKey,
    MaxSecret,       \* bound on generate_wrap
    KeyringRefuses   \* whether the keyring may refuse a write or a delete

ASSUME VaultAssumption ==
    NoKey \notin Key /\ MaxSecret \in Nat \ {0} /\ KeyringRefuses \in BOOLEAN

VARIABLES
    stored,      \* the keyring item
    key,         \* Vault.key
    secrets,     \* Vault.secrets
    labels,      \* Vault.labels: the secrets that carry a name
    minted       \* how many secrets generate_wrap has made

memory == <<key, secrets, labels>>
vaultVars == <<stored, memory, minted>>

-----------------------------------------------------------------------------
Secret == 1 .. MaxSecret

BLOB_VERSION == 4
NoItem == 0           \* no item in the keyring
Future == 5            \* a version decode refuses

\* nonce is the version 2 field that later shapes do not read.
VaultBlob == [v : NoItem .. Future, key : Key \cup {NoKey},
              secrets : SUBSET Secret, labels : SUBSET Secret,
              nonce : SUBSET Secret]
NoVault == [v |-> NoItem, key |-> NoKey, secrets |-> {}, labels |-> {},
            nonce |-> {}]

exists == stored.v # NoItem
decodes == stored.v \in 1 .. BLOB_VERSION
unlocked == key # NoKey

fresh == minted + 1                 \* the secret generate_wrap makes next
can_mint == minted < MaxSecret

\* What the bunker arms against: each secret with the name it was minted under.
Outstanding == [secret : Secret, named : BOOLEAN]
outstanding == {[secret |-> s, named |-> s \in labels] : s \in secrets}

VaultInit ==
    /\ \/ stored = NoVault
       \/ \E n \in 1 .. Future, k \in Key : stored =
            [NoVault EXCEPT !.v = n, !.key = k,
               !.secrets = IF n > 2 THEN {1} ELSE {},
               !.nonce = IF n = 2 THEN {1} ELSE {}]
    /\ key = NoKey /\ secrets = {} /\ labels = {}
    /\ minted = 1

-----------------------------------------------------------------------------
\* Save the blob, then set the memory from it.
save(blob) == stored' = [blob EXCEPT !.nonce = {}]
hold_lists == secrets' = stored'.secrets /\ labels' = stored'.labels

\* First provisioning; refuses while any item exists.
setup(k) ==
    /\ ~exists /\ can_mint
    /\ save([NoVault EXCEPT !.v = BLOB_VERSION, !.key = k, !.secrets = {fresh}])
    /\ secrets' = {fresh} /\ key' = k /\ minted' = fresh
    /\ UNCHANGED labels

\* The secrets a blob of each version brings to version 4.
migrated == IF stored.v = 2 THEN stored.nonce ELSE stored.secrets

\* An open vault answers without looking; otherwise migrate, make sure one
\* secret exists, save, and hold the key.
unlock ==
    \/ unlocked /\ UNCHANGED vaultVars
    \/ /\ ~unlocked /\ decodes
       /\ IF migrated = {} THEN can_mint /\ minted' = fresh ELSE UNCHANGED minted
       /\ save([stored EXCEPT !.v = BLOB_VERSION,
                  !.secrets = IF migrated = {} THEN {fresh} ELSE migrated])
       /\ hold_lists
       /\ key' = stored.key

lock == key' = NoKey /\ UNCHANGED <<stored, secrets, labels, minted>>

\* A second door beside the others, under a name or not.
mint_secret(labelled) ==
    /\ decodes /\ can_mint
    /\ save([stored EXCEPT !.secrets = @ \cup {fresh},
                           !.labels = IF labelled THEN @ \cup {fresh} ELSE @])
    /\ hold_lists /\ minted' = fresh
    /\ UNCHANGED key

burn_secret_keeps_label(s) ==       \* mutant
    /\ decodes /\ s \in stored.secrets
    /\ save([stored EXCEPT !.secrets = @ \ {s}])
    /\ hold_lists
    /\ UNCHANGED <<key, minted>>
burn_secret_unheld(s) ==       \* mutant: the memory is not refreshed
    /\ decodes
    /\ save([stored EXCEPT !.secrets = @ \ {s}, !.labels = @ \ {s}])
    /\ UNCHANGED <<memory, minted>>
burn_secret_unsaved(s) ==       \* mutant: the stored copy lives on
    /\ secrets' = secrets \ {s} /\ labels' = labels \ {s}
    /\ UNCHANGED <<stored, key, minted>>
\* A secret not outstanding is Ok(false): nothing is saved or set.
burn_secret(s) ==
    /\ decodes
    /\ IF s \in stored.secrets
       THEN save([stored EXCEPT !.secrets = @ \ {s}, !.labels = @ \ {s}]) /\ hold_lists
       ELSE UNCHANGED <<stored, secrets, labels>>
    /\ UNCHANGED <<key, minted>>

rotate_secret ==
    /\ decodes /\ can_mint
    /\ save([stored EXCEPT !.v = BLOB_VERSION, !.secrets = {fresh}, !.labels = {}])
    /\ hold_lists /\ minted' = fresh
    /\ UNCHANGED key

\* The memory goes whether or not the keyring then refuses the delete.
destroy ==
    /\ key' = NoKey /\ secrets' = {} /\ labels' = {}
    /\ stored' = NoVault \/ (KeyringRefuses /\ stored' = stored)
    /\ UNCHANGED minted

\* The process dies: the keyring item stays.
vault_restart == key' = NoKey /\ secrets' = {} /\ labels' = {}
                 /\ UNCHANGED <<stored, minted>>

-----------------------------------------------------------------------------
\* The daemon mints and rotates only for an open vault.
VaultNext ==
    \/ \E k \in Key : setup(k)
    \/ unlock \/ lock \/ destroy \/ vault_restart
    \/ unlocked /\ (rotate_secret \/ \E labelled \in BOOLEAN : mint_secret(labelled))
    \/ \E s \in Secret : burn_secret(s)

VaultSpec == VaultInit /\ [][VaultNext]_vaultVars

-----------------------------------------------------------------------------
\* The ranges of the variables; a name lives only as long as the secret it
\* rides, in the keyring and in memory.
VaultTypeOK ==
    /\ stored \in VaultBlob
    /\ key \in Key \cup {NoKey}
    /\ secrets \subseteq Secret /\ labels \subseteq secrets
    /\ stored.labels \subseteq stored.secrets
    /\ minted \in Nat

\* An open vault holds what the keyring holds, list by list, and the keyring
\* holds it in the current shape: no operation leaves the two apart, whatever
\* order mints, burns, rotations and failed deletes come in.
MemoryMirrorsStore ==
    unlocked => /\ stored.v = BLOB_VERSION /\ stored.key = key
                /\ stored.secrets = secrets /\ stored.labels = labels

\* The secrets a URI can still pair with, as the vault would answer.
doors == IF unlocked THEN secrets ELSE migrated

\* A secret that stopped pairing never pairs again: not by a lock, a restart, a
\* migration or a mint.
NoResurrection ==
    [][\A s \in 1 .. minted : s \notin doors => s \notin doors']_vaultVars

\* A URI stops pairing only because it was burned, rotated out or destroyed:
\* an upgrade of the blob keeps every door a URI was printed for.
DoorsCloseByHand ==
    [][\A s \in doors \ doors' : burn_secret(s) \/ rotate_secret \/ destroy]_vaultVars

\* The vault implements the identity it promises.
Promise == INSTANCE Identity WITH identity <- stored.key, gate <- key
KeepsIdentity == Promise!Spec

\* The identity stays the owner's, a door closes by hand alone, and a closed
\* door stays closed.
VaultKeeps == KeepsIdentity /\ NoResurrection /\ DoorsCloseByHand
=============================================================================
