------------------------------ MODULE VaultProofs ------------------------------
(***************************************************************************)
(* What the vault keeps for every set of keys and any number of secrets.   *)
(* MemoryMirrorsStore is not inductive alone: a setup leaves the labels in *)
(* memory as they are, an unlock reads whatever shape was stored.  Shape   *)
(* says what makes both right.                                             *)
(***************************************************************************)
EXTENDS Vault, TLAPS

\* An empty keyring leaves no labels behind, a stored item has its key, only the
\* current version has labels, and version 2 keeps its secret in the nonce.
Shape ==
    /\ ~exists => stored.key = NoKey /\ stored.secrets = {} /\ labels = {}
    /\ exists => stored.key \in Key
    /\ stored.v # BLOB_VERSION => stored.labels = {}
    /\ stored.v = 2 => stored.secrets = {}

IInv == VaultTypeOK /\ MemoryMirrorsStore /\ Shape

\* What an operation that saves leaves in the keyring, field by field.
Holds(v, k, held, named) ==
    /\ stored' \in VaultBlob
    /\ stored'.v = v /\ stored'.key = k
    /\ stored'.secrets = held /\ stored'.labels = named

\* Saving keeps everything but the nonce.
LEMMA SaveKeeps ==
    ASSUME NEW blob \in VaultBlob, save(blob)
    PROVE  Holds(blob.v, blob.key, blob.secrets, blob.labels)
BY DEF save, VaultBlob, Holds

\* What an empty keyring reads as.
LEMMA NoVaultIsBlob ==
    /\ NoVault \in VaultBlob /\ NoVault.v = NoItem /\ NoVault.key = NoKey
    /\ NoVault.secrets = {} /\ NoVault.labels = {} /\ NoVault.nonce = {}
BY DEF NoVault, VaultBlob, NoItem, Future

\* The version every save writes.
LEMMA VersionInRange == BLOB_VERSION \in NoItem .. Future
BY DEF BLOB_VERSION, NoItem, Future

\* The next secret generate_wrap makes.
LEMMA FreshIsSecret ==
    ASSUME can_mint, minted \in Nat
    PROVE  fresh \in Secret /\ fresh \in Nat
BY VaultAssumption DEF can_mint, fresh, Secret

-----------------------------------------------------------------------------
(* What each operation stores.                                             *)

\* What a first provisioning stores.
LEMMA SetupStores ==
    ASSUME VaultTypeOK, NEW k \in Key, setup(k)
    PROVE  Holds(BLOB_VERSION, k, {fresh}, {})
<1> DEFINE blob == [NoVault EXCEPT !.v = BLOB_VERSION, !.key = k, !.secrets = {fresh}]
<1>1. {fresh} \in SUBSET Secret
  BY FreshIsSecret DEF setup, VaultTypeOK
<1>2. /\ blob \in VaultBlob /\ blob.v = BLOB_VERSION /\ blob.key = k
      /\ blob.secrets = {fresh} /\ blob.labels = {}
  BY <1>1, VersionInRange, NoVaultIsBlob DEF VaultBlob
<1> QED BY <1>2, SaveKeeps DEF setup

\* A mint adds one door, under a name or not.
LEMMA MintStores ==
    ASSUME VaultTypeOK, NEW labelled \in BOOLEAN, mint_secret(labelled)
    PROVE  Holds(stored.v, stored.key, stored.secrets \cup {fresh},
                 IF labelled THEN stored.labels \cup {fresh} ELSE stored.labels)
<1> DEFINE named == IF labelled THEN stored.labels \cup {fresh} ELSE stored.labels
           blob == [stored EXCEPT !.secrets = stored.secrets \cup {fresh},
                                  !.labels = named]
<1>1. fresh \in Secret
  BY FreshIsSecret DEF mint_secret, VaultTypeOK
<1>2. named \in SUBSET Secret
  BY <1>1 DEF VaultTypeOK, VaultBlob
<1>3. save(blob)
  BY DEF mint_secret
<1> HIDE DEF named
<1>4. /\ blob \in VaultBlob /\ blob.v = stored.v /\ blob.key = stored.key
      /\ blob.secrets = stored.secrets \cup {fresh} /\ blob.labels = named
  BY <1>1, <1>2 DEF VaultBlob, VaultTypeOK
<1> QED BY <1>3, <1>4, SaveKeeps DEF named

\* A burn takes one door and its name.
LEMMA BurnStores ==
    ASSUME VaultTypeOK, NEW s, burn_secret(s), s \in stored.secrets
    PROVE  Holds(stored.v, stored.key, stored.secrets \ {s}, stored.labels \ {s})
<1> DEFINE blob == [stored EXCEPT !.secrets = stored.secrets \ {s},
                                  !.labels = stored.labels \ {s}]
<1>1. save(blob)
  BY DEF burn_secret
<1>2. /\ blob \in VaultBlob /\ blob.v = stored.v /\ blob.key = stored.key
      /\ blob.secrets = stored.secrets \ {s} /\ blob.labels = stored.labels \ {s}
  BY DEF VaultBlob, VaultTypeOK
<1> QED BY <1>1, <1>2, SaveKeeps

\* A rotation leaves one door.
LEMMA RotateStores ==
    ASSUME VaultTypeOK, rotate_secret
    PROVE  Holds(BLOB_VERSION, stored.key, {fresh}, {})
<1> DEFINE blob == [stored EXCEPT !.v = BLOB_VERSION, !.secrets = {fresh}, !.labels = {}]
<1>1. {fresh} \in SUBSET Secret
  BY FreshIsSecret DEF rotate_secret, VaultTypeOK
<1>2. /\ blob \in VaultBlob /\ blob.v = BLOB_VERSION /\ blob.key = stored.key
      /\ blob.secrets = {fresh} /\ blob.labels = {}
  BY <1>1, VersionInRange DEF VaultBlob, VaultTypeOK
<1> QED BY <1>2, SaveKeeps DEF rotate_secret

\* What an unlock that opens the vault stores: the migrated secrets, or one new
\* secret when there were none.
LEMMA UnlockStores ==
    ASSUME VaultTypeOK, unlock, ~unlocked
    PROVE  /\ decodes /\ key' = stored.key /\ hold_lists
           /\ Holds(BLOB_VERSION, stored.key,
                    IF migrated = {} THEN {fresh} ELSE migrated, stored.labels)
           /\ IF migrated = {} THEN can_mint /\ minted' = fresh ELSE minted' = minted
<1> DEFINE held == IF migrated = {} THEN {fresh} ELSE migrated
           blob == [stored EXCEPT !.v = BLOB_VERSION, !.secrets = held]
<1>1. /\ decodes /\ key' = stored.key /\ hold_lists /\ save(blob)
      /\ IF migrated = {} THEN can_mint /\ minted' = fresh ELSE minted' = minted
  BY DEF unlock
<1>2. migrated \in SUBSET Secret
  BY DEF migrated, VaultTypeOK, VaultBlob
<1>3. held \in SUBSET Secret
  BY <1>1, <1>2, FreshIsSecret DEF VaultTypeOK
<1> HIDE DEF held
<1>4. /\ blob \in VaultBlob /\ blob.v = BLOB_VERSION /\ blob.key = stored.key
      /\ blob.secrets = held /\ blob.labels = stored.labels
  BY <1>3, VersionInRange DEF VaultBlob, VaultTypeOK
<1> QED BY <1>1, <1>4, SaveKeeps DEF held

-----------------------------------------------------------------------------
(* The invariant.                                                          *)

\* The invariant holds of a daemon that just started, whatever the keyring holds.
LEMMA InitInv == VaultInit => IInv
<1> SUFFICES ASSUME VaultInit PROVE IInv
  OBVIOUS
<1>1. CASE stored = NoVault
  BY <1>1, NoVaultIsBlob DEF VaultInit, IInv, VaultTypeOK, MemoryMirrorsStore, Shape,
     exists, unlocked
<1>2. ASSUME NEW n \in 1 .. Future, NEW k \in Key,
             stored = [NoVault EXCEPT !.v = n, !.key = k,
                         !.secrets = IF n > 2 THEN {1} ELSE {},
                         !.nonce = IF n = 2 THEN {1} ELSE {}]
      PROVE  IInv
  <2>1. 1 \in Secret
    BY VaultAssumption DEF Secret
  <2>2. n \in NoItem .. Future /\ n # NoItem
    BY DEF NoItem, Future
  <2>3. (IF n > 2 THEN {1} ELSE {}) \in SUBSET Secret /\ (IF n = 2 THEN {1} ELSE {}) \in SUBSET Secret
    BY <2>1
  <2>4. /\ stored \in VaultBlob /\ stored.v = n /\ stored.key = k
        /\ stored.labels = {}
    BY <1>2, <2>2, <2>3, NoVaultIsBlob DEF VaultBlob
  <2>5. n = 2 => stored.secrets = {}
    BY <1>2, NoVaultIsBlob DEF VaultBlob
  <2>6. key = NoKey /\ secrets = {} /\ labels = {} /\ minted = 1
    BY DEF VaultInit
  <2>7. VaultTypeOK
    BY <2>4, <2>6 DEF VaultTypeOK
  <2>8. MemoryMirrorsStore /\ Shape
    BY <2>2, <2>4, <2>6, <2>5 DEF MemoryMirrorsStore, Shape, exists, unlocked
  <2> QED BY <2>7, <2>8 DEF IInv
<1> QED BY <1>1, <1>2 DEF VaultInit

\* An operation that leaves the current version in the keyring, and in memory
\* its lists, keeps the invariant.
LEMMA StoredInv ==
    ASSUME NEW k \in Key, NEW held \in SUBSET Secret, NEW named \in SUBSET held,
           Holds(BLOB_VERSION, k, held, named), secrets' = held, labels' = named,
           key' \in {NoKey, k}, minted' \in Nat
    PROVE  IInv'
BY DEF Holds, IInv, VaultTypeOK, MemoryMirrorsStore, Shape, exists, unlocked,
       BLOB_VERSION, NoItem

\* Every operation keeps the invariant.
LEMMA StepInv == IInv /\ [VaultNext]_vaultVars => IInv'
<1> SUFFICES ASSUME IInv, [VaultNext]_vaultVars PROVE IInv'
  OBVIOUS
<1> USE DEF IInv
<1>1. ASSUME NEW k \in Key, setup(k) PROVE IInv'
  <2>1. Holds(BLOB_VERSION, k, {fresh}, {})
    BY <1>1, SetupStores
  <2>2. fresh \in Secret /\ fresh \in Nat
    BY <1>1, FreshIsSecret DEF setup, VaultTypeOK
  <2>3. labels' = {} /\ secrets' = {fresh} /\ key' = k /\ minted' = fresh
    BY <1>1 DEF setup, Shape
  <2> QED BY <2>1, <2>2, <2>3, StoredInv
<1>2. CASE unlock
  <2>1. CASE unlocked
    BY <1>2, <2>1 DEF unlock, vaultVars, memory, VaultTypeOK, MemoryMirrorsStore, Shape,
       exists, unlocked
  <2>2. CASE ~unlocked
    <3> DEFINE held == IF migrated = {} THEN {fresh} ELSE migrated
    <3>1. /\ decodes /\ key' = stored.key /\ hold_lists
          /\ Holds(BLOB_VERSION, stored.key, held, stored.labels)
          /\ IF migrated = {} THEN can_mint /\ minted' = fresh ELSE minted' = minted
      BY <1>2, <2>2, UnlockStores
    <3>2. stored.key \in Key
      BY <3>1 DEF Shape, exists, decodes, NoItem, BLOB_VERSION
    <3>3. /\ held \in SUBSET Secret /\ stored.labels \in SUBSET held
          /\ minted' \in Nat
      <4>1. migrated \in SUBSET Secret
        BY DEF migrated, VaultTypeOK, VaultBlob
      <4>2. stored.labels \in SUBSET migrated
        BY DEF migrated, VaultTypeOK, Shape, BLOB_VERSION
      <4> QED BY <3>1, <4>1, <4>2, FreshIsSecret DEF VaultTypeOK
    <3>4. secrets' = held /\ labels' = stored.labels
      BY <3>1 DEF hold_lists, Holds
    <3> HIDE DEF held
    <3> QED BY <3>1, <3>2, <3>3, <3>4, StoredInv
  <2> QED BY <2>1, <2>2
<1>3. CASE lock
  BY <1>3 DEF lock, VaultTypeOK, MemoryMirrorsStore, Shape, exists, unlocked
<1>4. CASE destroy
  BY <1>4, NoVaultIsBlob DEF destroy, VaultTypeOK, MemoryMirrorsStore, Shape, exists,
     unlocked
<1>5. CASE vault_restart
  BY <1>5 DEF vault_restart, VaultTypeOK, MemoryMirrorsStore, Shape, exists, unlocked
<1>6. ASSUME unlocked, rotate_secret PROVE IInv'
  <2>1. Holds(BLOB_VERSION, stored.key, {fresh}, {})
    BY <1>6, RotateStores
  <2>2. fresh \in Secret /\ fresh \in Nat /\ stored.key = key /\ key \in Key
    BY <1>6, FreshIsSecret DEF rotate_secret, VaultTypeOK, MemoryMirrorsStore, unlocked
  <2>3. labels' = {} /\ secrets' = {fresh} /\ key' = key /\ minted' = fresh
    BY <1>6, <2>1 DEF rotate_secret, hold_lists, Holds
  <2> QED BY <2>1, <2>2, <2>3, StoredInv
<1>7. ASSUME unlocked, NEW labelled \in BOOLEAN, mint_secret(labelled) PROVE IInv'
  <2> DEFINE held == stored.secrets \cup {fresh}
             named == IF labelled THEN stored.labels \cup {fresh} ELSE stored.labels
  <2>1. Holds(stored.v, stored.key, held, named)
    BY <1>7, MintStores
  <2>2. /\ fresh \in Secret /\ fresh \in Nat /\ stored.key = key /\ key \in Key
        /\ stored.v = BLOB_VERSION
    BY <1>7, FreshIsSecret DEF mint_secret, VaultTypeOK, MemoryMirrorsStore, unlocked
  <2>3. held \in SUBSET Secret /\ named \in SUBSET held
    BY <2>2 DEF VaultTypeOK, VaultBlob
  <2>4. labels' = named /\ secrets' = held /\ key' = key /\ minted' = fresh
    BY <1>7, <2>1 DEF mint_secret, hold_lists, Holds
  <2> HIDE DEF held, named
  <2> QED BY <2>1, <2>2, <2>3, <2>4, StoredInv
<1>8. ASSUME NEW s \in Secret, burn_secret(s) PROVE IInv'
  <2>1. CASE s \notin stored.secrets
    BY <1>8, <2>1 DEF burn_secret, VaultTypeOK, MemoryMirrorsStore, Shape, exists, unlocked
  <2>2. CASE s \in stored.secrets
    <3>1. Holds(stored.v, stored.key, stored.secrets \ {s}, stored.labels \ {s})
      BY <1>8, <2>2, BurnStores
    <3>2. /\ secrets' = stored.secrets \ {s} /\ labels' = stored.labels \ {s}
          /\ key' = key /\ minted' = minted /\ exists
      BY <1>8, <2>2, <3>1 DEF burn_secret, hold_lists, Holds, decodes, exists, NoItem,
         BLOB_VERSION
    <3> QED BY <3>1, <3>2 DEF Holds, VaultTypeOK, VaultBlob, MemoryMirrorsStore, Shape,
            exists, unlocked
  <2> QED BY <2>1, <2>2
<1>9. CASE UNCHANGED vaultVars
  BY <1>9 DEF vaultVars, memory, VaultTypeOK, MemoryMirrorsStore, Shape, exists, unlocked
<1> QED BY <1>1, <1>2, <1>3, <1>4, <1>5, <1>6, <1>7, <1>8, <1>9 DEF VaultNext

\* The inductive invariant holds of every behaviour of the vault.
THEOREM Invariance == VaultSpec => []IInv
BY InitInv, StepInv, PTL DEF VaultSpec

\* The ranges of the variables, and no label outlives its secret.
THEOREM VaultTypeCorrect == VaultSpec => []VaultTypeOK
<1>1. IInv => VaultTypeOK
  BY DEF IInv
<1> QED BY <1>1, Invariance, PTL

\* An open vault holds what the keyring holds.
THEOREM MirrorCorrect == VaultSpec => []MemoryMirrorsStore
<1>1. IInv => MemoryMirrorsStore
  BY DEF IInv
<1> QED BY <1>1, Invariance, PTL

-----------------------------------------------------------------------------
(* The vault implements the identity.                                      *)

\* Each operation maps to a step of Identity or to a stutter: a setup provisions,
\* an unlock opens, a lock, a restart and a refused destroy close, a destroy
\* that the keyring takes erases, and the operations on secrets stutter.
LEMMA StepRefines == IInv /\ [VaultNext]_vaultVars => [Promise!Next]_(Promise!vars)
<1> SUFFICES ASSUME IInv, [VaultNext]_vaultVars PROVE [Promise!Next]_(Promise!vars)
  OBVIOUS
<1> USE DEF IInv, Promise!Next, Promise!vars
<1>1. ASSUME NEW k \in Key, setup(k) PROVE Promise!Provision(k)
  BY <1>1, SetupStores DEF setup, Shape, Holds, Promise!Provision
<1>2. CASE unlock
  <2>1. CASE unlocked
    BY <1>2, <2>1 DEF unlock, vaultVars, memory
  <2>2. CASE ~unlocked
    <3>1. decodes /\ key' = stored.key /\ stored'.key = stored.key
      BY <1>2, <2>2, UnlockStores DEF Holds
    <3>2. stored.key # NoKey
      BY <3>1, VaultAssumption DEF Shape, exists, decodes, NoItem, BLOB_VERSION
    <3> QED BY <3>1, <3>2 DEF Promise!Open
  <2> QED BY <2>1, <2>2
<1>3. CASE lock
  BY <1>3 DEF lock, Promise!Close
<1>4. CASE destroy
  BY <1>4, NoVaultIsBlob DEF destroy, Promise!Erase, Promise!Close
<1>5. CASE vault_restart
  BY <1>5 DEF vault_restart, Promise!Close
<1>6. CASE rotate_secret
  BY <1>6, RotateStores DEF rotate_secret, Holds
<1>7. ASSUME NEW labelled \in BOOLEAN, mint_secret(labelled)
      PROVE  UNCHANGED Promise!vars
  BY <1>7, MintStores DEF mint_secret, Holds
<1>8. ASSUME NEW s \in Secret, burn_secret(s) PROVE UNCHANGED Promise!vars
  BY <1>8, BurnStores DEF burn_secret, Holds
<1>9. CASE UNCHANGED vaultVars
  BY <1>9 DEF vaultVars, memory
<1> QED BY <1>1, <1>2, <1>3, <1>4, <1>5, <1>6, <1>7, <1>8, <1>9 DEF VaultNext

\* There is one identity at a time: nothing but a destroy makes room for
\* another, and the open vault answers with that identity alone.
THEOREM IdentityKept == VaultSpec => KeepsIdentity
<1>1. VaultInit => Promise!Init
  BY NoVaultIsBlob, InitInv DEF VaultInit, IInv, VaultTypeOK, VaultBlob, Promise!Init
<1> QED BY <1>1, StepRefines, Invariance, PTL DEF VaultSpec, KeepsIdentity, Promise!Spec

-----------------------------------------------------------------------------
(* The doors.                                                              *)

\* What each operation does to the secrets a URI can still pair with.
LEMMA StepDoors ==
    ASSUME IInv, [VaultNext]_vaultVars
    PROVE  \/ doors' = doors
           \/ doors' \subseteq doors \cup {fresh}
              /\ (doors \subseteq doors' \/ rotate_secret \/ destroy)
           \/ \E s \in Secret : burn_secret(s) /\ doors' = doors \ {s}
<1> USE DEF IInv
<1>1. ASSUME NEW k \in Key, setup(k) PROVE doors' = {fresh} /\ doors = {}
  <2>1. doors' = {fresh}
    BY <1>1, SetupStores, VaultAssumption DEF Holds, setup, doors, migrated, unlocked, BLOB_VERSION
  <2>2. doors = {}
    BY <1>1 DEF setup, doors, migrated, unlocked, Shape, exists, MemoryMirrorsStore, NoItem,
       BLOB_VERSION
  <2> QED BY <2>1, <2>2
<1>2. CASE unlock
  <2>1. CASE unlocked
    BY <1>2, <2>1 DEF unlock, vaultVars, memory, doors, migrated, unlocked
  <2>2. CASE ~unlocked
    <3> DEFINE held == IF migrated = {} THEN {fresh} ELSE migrated
    <3>1. hold_lists /\ Holds(BLOB_VERSION, stored.key, held, stored.labels)
      BY <1>2, <2>2, UnlockStores
    <3>2. doors' = held
      BY <3>1 DEF hold_lists, Holds, doors, migrated, unlocked, BLOB_VERSION
    <3>3. doors = migrated
      BY <2>2 DEF doors
    <3> QED BY <3>2, <3>3
  <2> QED BY <2>1, <2>2
<1>3. CASE lock
  BY <1>3 DEF lock, doors, migrated, unlocked, MemoryMirrorsStore, BLOB_VERSION
<1>4. CASE destroy
  <2>1. CASE stored' = NoVault
    BY <1>4, <2>1, NoVaultIsBlob DEF destroy, doors, migrated, unlocked, NoItem
  <2>2. CASE stored' = stored
    BY <1>4, <2>2 DEF destroy, doors, migrated, unlocked, MemoryMirrorsStore, BLOB_VERSION
  <2> QED BY <1>4, <2>1, <2>2 DEF destroy
<1>5. CASE vault_restart
  BY <1>5 DEF vault_restart, doors, migrated, unlocked, MemoryMirrorsStore, BLOB_VERSION
<1>6. CASE rotate_secret
  BY <1>6, RotateStores DEF rotate_secret, hold_lists, Holds, doors, migrated, BLOB_VERSION
<1>7. ASSUME unlocked, NEW labelled \in BOOLEAN, mint_secret(labelled)
      PROVE  doors' = doors \cup {fresh}
  BY <1>7, MintStores DEF mint_secret, hold_lists, Holds, doors, migrated, unlocked,
     MemoryMirrorsStore, BLOB_VERSION
<1>8. ASSUME NEW s \in Secret, burn_secret(s)
      PROVE  doors' = doors \/ doors' = doors \ {s}
  <2>1. CASE s \notin stored.secrets
    BY <1>8, <2>1 DEF burn_secret, doors, migrated, unlocked
  <2>2. CASE s \in stored.secrets
    BY <1>8, <2>2, BurnStores DEF burn_secret, hold_lists, Holds, doors, migrated, unlocked,
       MemoryMirrorsStore, Shape, BLOB_VERSION
  <2> QED BY <2>1, <2>2
<1>9. CASE UNCHANGED vaultVars
  BY <1>9 DEF vaultVars, memory, doors, migrated, unlocked
<1> QED BY <1>1, <1>2, <1>3, <1>4, <1>5, <1>6, <1>7, <1>8, <1>9 DEF VaultNext

\* A secret that stopped pairing never pairs again: what an operation adds to
\* the doors was never minted before.
THEOREM NothingResurrected == VaultSpec => NoResurrection
<1>1. ASSUME IInv, [VaultNext]_vaultVars
      PROVE  [\A s \in 1 .. minted : s \notin doors => s \notin doors']_vaultVars
  <2>1. \A s \in 1 .. minted : s # fresh
    BY <1>1 DEF IInv, VaultTypeOK, fresh
  <2> QED BY <1>1, <2>1, StepDoors
<1> QED BY <1>1, Invariance, PTL DEF VaultSpec, NoResurrection

\* A door closes by a burn, a rotation or a destroy, and by nothing else.
THEOREM ClosedByHand == VaultSpec => DoorsCloseByHand
<1>1. ASSUME IInv, [VaultNext]_vaultVars
      PROVE  [\A s \in doors \ doors' : burn_secret(s) \/ rotate_secret \/ destroy]_vaultVars
  BY <1>1, StepDoors
<1> QED BY <1>1, Invariance, PTL DEF VaultSpec, DoorsCloseByHand

\* What the vault promises of its identity and its doors, together.
THEOREM VaultKept == VaultSpec => VaultKeeps
BY IdentityKept, NothingResurrected, ClosedByHand DEF VaultKeeps
=============================================================================
