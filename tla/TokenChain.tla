----------------------------- MODULE TokenChain -----------------------------
(***************************************************************************)
(* UCAN tokens: minting (auth_ucan.go, mint-root and issue-token of        *)
(* main.go), the broker's TokenValidator, /refresh-token, and the durable  *)
(* known_tokens table that outlives a broker restart.                      *)
(*                                                                         *)
(* A token is its number in minting order. Signatures are sound: a token   *)
(* exists only if one of the minting operations made it. The validator     *)
(* stores with each hash the capabilities the token itself claims (the     *)
(* root's are AllCapabilities both when minted and when registered), so    *)
(* knownTokens is a set here.                                              *)
(*                                                                         *)
(* The table is best effort: a Save that fails is logged, a load that      *)
(* fails restores nothing or less, and the broker goes on.                 *)
(***************************************************************************)
EXTENDS Naturals, FiniteSets

CONSTANTS
    Caps,       \* AllCapabilities()
    Clients,    \* machines with a token.jwt
    BrokerHost, \* the one the broker runs on, which also holds root-token.jwt
    MaxTokens,  \* bound: tokens ever minted
    MaxTime,    \* bound on the clock
    RootTTL,    \* lifetime of a root token
    ChildTTLs,  \* lifetimes issue-token may be asked for
    RefreshTTL, \* defaultChildTTL()
    Leeway,     \* validate accepts a token this long after its expiry
    Grace,      \* ValidateWithGrace does so for this long
    MaxFaults   \* bound: requests and restarts in which a read or a write fails

ASSUME TimesAssumption ==
    /\ MaxTokens \in Nat /\ MaxTime \in Nat
    /\ RootTTL \in Nat /\ Leeway \in Nat /\ Grace \in Nat /\ MaxFaults \in Nat
    /\ ChildTTLs \subseteq 1 .. RootTTL /\ RefreshTTL \in 1 .. RootTTL

Ids == 1 .. MaxTokens
NoToken == 0
NoClient == "none"

ASSUME HostAssumption == BrokerHost \in Clients /\ NoClient \notin Clients

VARIABLES
    minted,   \* tokens 1 .. minted exist
    parent,   \* the prf claim: the parent's number, NoToken for a root token
    caps,     \* the capabilities claimed
    exp,      \* the expiry claimed
    disk,     \* the broker's root-token.jwt
    auth,     \* each machine's token.jwt
    held,     \* the tokens some process of the machine has loaded or received (authToken)
    known,    \* TokenValidator.knownTokens
    saved,    \* table known_tokens
    booted,   \* history: the root token the running broker loaded at its start, if any
    lost,     \* history: tokens the broker has failed to write to the table, or to load
    faults,   \* failures so far
    granted,  \* the machine /refresh-token has returned a token to, or NoClient
    clock

tokenVars == <<minted, parent, caps, exp>>
brokerVars == <<known, saved, booted, lost, faults>>
vars == <<tokenVars, brokerVars, disk, auth, held, granted, clock>>

TypeOK ==
    /\ minted \in 0 .. MaxTokens
    /\ parent \in [Ids -> Ids \cup {NoToken}]
    /\ caps \in [Ids -> SUBSET Caps]
    /\ exp \in [Ids -> Nat]
    /\ disk \in Ids
    /\ auth \in [Clients -> Ids \cup {NoToken}]
    /\ known \subseteq Ids
    /\ saved \subseteq Ids
    /\ booted \in Ids \cup {NoToken}
    /\ lost \subseteq Ids
    /\ faults \in 0 .. MaxFaults
    /\ granted \in [Ids -> Clients \cup {NoClient}]
    /\ held \in [Clients -> SUBSET Ids]
    /\ clock \in Nat

\* A broker that was initialised and started: one root token, registered.
Init ==
    /\ MaxTokens >= 1
    /\ minted = 1
    /\ parent = [t \in Ids |-> NoToken]
    /\ caps = [t \in Ids |-> IF t = 1 THEN Caps ELSE {}]
    /\ exp = [t \in Ids |-> IF t = 1 THEN RootTTL ELSE 0]
    /\ disk = 1
    /\ auth = [c \in Clients |-> IF c = BrokerHost THEN 1 ELSE NoToken]
    /\ known = {1}
    /\ saved = {1}
    /\ booted = 1
    /\ lost = {}
    /\ faults = 0
    /\ granted = [t \in Ids |-> NoClient]
    /\ held = [c \in Clients |-> IF c = BrokerHost THEN {1} ELSE {}]
    /\ clock = 0

-----------------------------------------------------------------------------
(* The validator *)

\* A delegated token needs a parent the validator has seen, and no capability
\* beyond it; a root token needs only its issuer.
ChainOK(t) ==
    parent[t] # NoToken => parent[t] \in known /\ caps[t] \subseteq caps[parent[t]]

\* validate: unexpired up to the leeway, and the chain holds.
Accepts(t) == clock < exp[t] + Leeway /\ ChainOK(t)

\* ValidateWithGrace
AcceptsWithGrace(t) == clock <= exp[t] + Grace /\ ChainOK(t)

\* Something fails unless ok.
FaultUnless(ok) ==
    IF ok THEN UNCHANGED faults ELSE faults < MaxFaults /\ faults' = faults + 1

\* The broker has failed to write or to load the tokens of T; known and in the
\* table, a token is lost no more.
Loses(T) == lost' = (lost \cup T) \ (known' \cap saved')

\* Mutant of Register: nothing is written to the table.
RegisterInMemory(T) ==
    /\ known' = known \cup T
    /\ UNCHANGED <<saved, lost, faults>>

\* RegisterToken and the end of a validation: memory and then the table, where the
\* Save of some may fail.
Register(T) ==
    /\ known' = known \cup T
    /\ \E failed \in SUBSET T :
          /\ FaultUnless(failed = {})
          /\ saved' = saved \cup (T \ failed)
          /\ Loses(failed)

-----------------------------------------------------------------------------
(* Minting *)

\* Mutant of AddToken: the lifetime is counted back from now.
AddTokenBackdated(t, p, C, ttl) ==
    /\ t = minted + 1
    /\ t \in Ids
    /\ minted' = t
    /\ parent' = [parent EXCEPT ![t] = p]
    /\ caps' = [caps EXCEPT ![t] = C]
    /\ exp' = [exp EXCEPT ![t] = clock - ttl]

\* A new token t. Its lifetime is not clipped to its parent's.
AddToken(t, p, C, ttl) ==
    /\ t = minted + 1
    /\ t \in Ids
    /\ minted' = t
    /\ parent' = [parent EXCEPT ![t] = p]
    /\ caps' = [caps EXCEPT ![t] = C]
    /\ exp' = [exp EXCEPT ![t] = clock + ttl]

\* Mutant of MintToken: any capability is granted.
MintUnchecked(t, p, C, ttl) == AddToken(t, p, C, ttl)

\* MintToken refuses capabilities the parent does not claim.
MintToken(t, p, C, ttl) ==
    /\ C \subseteq caps[p]
    /\ AddToken(t, p, C, ttl)

\* A token is written to token.jwt of machine c; the processes that start there from
\* now on load it, the others keep the one they have.
SaveToken(c, t) ==
    /\ auth' = [auth EXCEPT ![c] = t]
    /\ held' = [held EXCEPT ![c] = @ \cup {t}]

\* mint-root writes the new root token to both files of the broker's machine;
\* a running broker is not told.
MintRoot(t) ==
    /\ AddToken(t, NoToken, Caps, RootTTL)
    /\ disk' = t
    /\ SaveToken(BrokerHost, t)
    /\ UNCHANGED <<brokerVars, granted, clock>>

\* The token issue-token delegates from on machine d: root-token.jwt where
\* there is one, else token.jwt.
SigningToken(d) == IF d = BrokerHost THEN disk ELSE auth[d]

\* issue-token on machine d for another machine c, where the result is saved.
\* The broker's host keeps its root token.
IssueToken(t, d, c, C, ttl) ==
    /\ c # d
    /\ c # BrokerHost
    /\ SigningToken(d) # NoToken
    /\ MintToken(t, SigningToken(d), C, ttl)
    /\ SaveToken(c, t)
    /\ UNCHANGED <<brokerVars, disk, granted, clock>>

-----------------------------------------------------------------------------
(* The broker *)

\* A request of a process of machine c passes ucanMiddleware.
Authenticate(c, t) ==
    /\ t \in held[c]
    /\ Accepts(t)
    /\ Register({t})
    /\ UNCHANGED <<tokenVars, disk, auth, held, booted, granted, clock>>

\* /refresh-token validates the old token, with the grace period if it must,
\* and validation registers it.
MayRefresh(c, old) ==
    /\ old \in held[c]
    /\ Accepts(old) \/ AcceptsWithGrace(old)

\* A root token is not refreshed, and no token is when the broker's keypair or the
\* root token on disk cannot be read.
RefuseRefresh(c, old) ==
    /\ MayRefresh(c, old)
    /\ Register({old})
    /\ UNCHANGED <<tokenVars, disk, auth, held, booted, granted, clock>>

\* Mutant of RefreshToken: the new token is delegated from the old one.
RefreshFromOld(t, c, old) ==
    /\ MayRefresh(c, old)
    /\ parent[old] # NoToken
    /\ MintToken(t, old, caps[old], RefreshTTL)
    /\ Register({old, t})
    /\ granted' = [granted EXCEPT ![t] = c]
    /\ UNCHANGED <<disk, auth, held, booted, clock>>

\* A delegated one is replaced by a token with the same capabilities under the
\* root token found on disk, which is not consulted in the validator. Goroutines and
\* processes of one machine may refresh the same old token at the same time.
RefreshToken(t, c, old) ==
    /\ MayRefresh(c, old)
    /\ parent[old] # NoToken
    /\ MintToken(t, disk, caps[old], RefreshTTL)
    /\ Register({old, t})
    /\ granted' = [granted EXCEPT ![t] = c]
    /\ UNCHANGED <<disk, auth, held, booted, clock>>

\* doRefreshToken saves the token it receives, over whatever token.jwt has by then;
\* a response that is lost is never received.
ReceiveRefreshed(c, t) ==
    /\ granted[t] = c
    /\ t \notin held[c]
    /\ SaveToken(c, t)
    /\ UNCHANGED <<tokenVars, brokerVars, disk, granted, clock>>

\* The rows loadKnownTokens asks for.
Unexpired == {t \in saved : exp[t] >= clock}

\* Mutant of Restart: the root token on disk is not registered.
RestartWithoutRoot ==
    /\ known' = Unexpired
    /\ saved' = Unexpired
    /\ booted' = disk
    /\ UNCHANGED <<tokenVars, disk, auth, held, lost, faults, granted, clock>>

\* newBroker: loadKnownTokens prunes expired rows and restores the others, then the
\* root token on disk is registered. Each of these may fail: rows are kept that
\* should go or are not restored, there is no root token, or it is not saved.
Restart ==
    \E rows \in {Unexpired, saved}, loaded \in SUBSET Unexpired,
       root \in SUBSET {disk}, failed \in SUBSET {disk} :
        /\ FaultUnless(rows = Unexpired /\ loaded = Unexpired /\ root = {disk} /\ failed = {})
        /\ known' = loaded \cup root
        /\ saved' = rows \cup (root \ failed)
        /\ booted' = IF root = {} THEN NoToken ELSE disk
        /\ Loses((Unexpired \ loaded) \cup root)
        /\ UNCHANGED <<tokenVars, disk, auth, held, granted, clock>>

Tick ==
    /\ clock < MaxTime
    /\ clock' = clock + 1
    /\ UNCHANGED <<tokenVars, brokerVars, disk, auth, held, granted>>

Next ==
    \/ \E t \in Ids :
          \/ MintRoot(t)
          \/ \E c, d \in Clients, C \in SUBSET Caps, ttl \in ChildTTLs :
                IssueToken(t, d, c, C, ttl)
          \/ \E c \in Clients, old \in Ids : RefreshToken(t, c, old)
          \/ \E c \in Clients :
                ReceiveRefreshed(c, t) \/ Authenticate(c, t) \/ RefuseRefresh(c, t)
    \/ Restart
    \/ Tick

Spec == Init /\ [][Next]_vars

-----------------------------------------------------------------------------
(* Properties *)

\* Capabilities only shrink down a chain, so a token is never refused for its
\* capabilities at first use: minting already refused it.
MintedIsAttenuated ==
    \A t \in 1 .. minted : parent[t] # NoToken => caps[t] \subseteq caps[parent[t]]

\* A process whose token hangs under the current root can refresh it until the
\* grace period has run out, whoever of its machine has refreshed it already, across
\* any restarts and even after the root itself expired, unless the root on disk was
\* replaced under the running broker, or could not be read when it started. (The
\* comment in ttl.go has a child die with its parent; the validator does not ask.)
RootChildrenCanRefresh ==
    \A c \in Clients : \A t \in held[c] :
        /\ parent[t] = disk
        /\ booted = disk
        /\ clock <= exp[t] + Grace
        => AcceptsWithGrace(t)

\* Only time and failure take a usable token away. No request, refresh, root rotation
\* or broker restart makes the broker refuse a token it would have accepted, as long
\* as the token it was delegated from has not expired, unless that is one the broker
\* failed to write to the table or to load from it.
OnlyTimeRevokes ==
    [][\A t \in 1 .. minted :
         /\ clock' = clock
         /\ Accepts(t)
         /\ parent[t] # NoToken => exp[parent[t]] >= clock
         => Accepts(t)' \/ parent[t] \in lost']_vars

\* A refreshed token is usable as long as it lives, whatever expires or restarts,
\* unless it hangs under a root token other than the one the broker started with:
\* when mint-root has replaced the root on disk, the broker grants tokens under the
\* new root while it knows only the old one, and refuses them. A broker that could
\* not read its root token at the start has none to grant usable tokens under.
GrantedIsUsable ==
    \A t \in Ids : granted[t] # NoClient =>
        (clock < exp[t] + Leeway /\ ~Accepts(t) =>
            parent[parent[t]] = NoToken /\ parent[t] # booted)
=============================================================================
