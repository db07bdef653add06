-------------------------- MODULE TokenChainProofs --------------------------
(***************************************************************************)
(* Proofs about TokenChain, for any machines, capabilities, lifetimes and  *)
(* bounds.                                                                 *)
(*                                                                         *)
(* What the broker answers depends on the parent of a token, so the        *)
(* inductive invariant follows parents: every token that exists has a      *)
(* parent that exists (ChainsEnd), nobody holds or knows a token that does *)
(* not exist yet (OnlyMinted), the two root tokens the broker reads are    *)
(* roots, and the one it started with is among the known (RootsAreRoots).  *)
(* Every known token is in the table or on record as lost (SavedOrLost),   *)
(* which is why a restart forgets nothing but what has expired or failed.  *)
(***************************************************************************)
EXTENDS TokenChain, TLAPS

Minted == 1 .. minted

OnlyMinted ==
    /\ known \subseteq Minted /\ saved \subseteq Minted
    /\ \A c \in Clients : held[c] \subseteq Minted /\ auth[c] \in Minted \cup {NoToken}
    /\ \A t \in Ids : granted[t] # NoClient => t \in Minted

ChainsEnd == \A t \in Minted : parent[t] \in Minted \cup {NoToken}

RootsAreRoots ==
    /\ disk \in Minted /\ parent[disk] = NoToken
    /\ booted # NoToken => booted \in known /\ parent[booted] = NoToken

SavedOrLost == known \ saved \subseteq lost

GrantedUnderRoot ==
    \A t \in Minted : granted[t] # NoClient =>
        parent[t] # NoToken /\ parent[parent[t]] = NoToken

IInv ==
    /\ TypeOK
    /\ SavedOrLost
    /\ OnlyMinted
    /\ ChainsEnd
    /\ MintedIsAttenuated
    /\ RootsAreRoots
    /\ GrantedUnderRoot

-----------------------------------------------------------------------------
(* Type correctness *)

\* A token is added to the chain by mint-root, issue-token or /refresh-token, with a
\* lifetime the code may give it.
LEMMA AddTokenType ==
    ASSUME TypeOK, NEW t, NEW p \in Ids \cup {NoToken}, NEW C \in SUBSET Caps,
           NEW ttl \in Nat, AddToken(t, p, C, ttl)
    PROVE  /\ minted' \in 0 .. MaxTokens
           /\ parent' \in [Ids -> Ids \cup {NoToken}]
           /\ caps' \in [Ids -> SUBSET Caps]
           /\ exp' \in [Ids -> Nat]
BY TimesAssumption DEF TypeOK, AddToken, Ids

\* Registering tokens keeps memory, table and histories well typed.
LEMMA RegisterType ==
    ASSUME TypeOK, NEW T \in SUBSET Ids, Register(T)
    PROVE  /\ known' \subseteq Ids /\ saved' \subseteq Ids /\ lost' \subseteq Ids
           /\ faults' \in 0 .. MaxFaults
BY TimesAssumption DEF TypeOK, Register, Loses, FaultUnless

\* Every request, command and restart keeps files, memory and table well typed.
LEMMA TypeStep == TypeOK /\ [Next]_vars => TypeOK'
<1> SUFFICES ASSUME TypeOK, [Next]_vars PROVE TypeOK'
  OBVIOUS
<1> USE TimesAssumption, HostAssumption DEF TypeOK, tokenVars, brokerVars
<1>1. ASSUME NEW t \in Ids, MintRoot(t) PROVE TypeOK'
  <2>1. AddToken(t, NoToken, Caps, RootTTL)
    BY <1>1 DEF MintRoot
  <2>2. QED
    BY <1>1, <2>1, AddTokenType DEF MintRoot, SaveToken
<1>2. ASSUME NEW t \in Ids, NEW c \in Clients, NEW d \in Clients, NEW C \in SUBSET Caps,
             NEW ttl \in ChildTTLs, IssueToken(t, d, c, C, ttl)
      PROVE  TypeOK'
  <2>1. SigningToken(d) \in Ids \cup {NoToken} /\ ttl \in Nat
    BY DEF SigningToken
  <2>2. AddToken(t, SigningToken(d), C, ttl)
    BY <1>2 DEF IssueToken, MintToken
  <2>3. QED
    BY <1>2, <2>1, <2>2, AddTokenType DEF IssueToken, SaveToken
<1>3. ASSUME NEW t \in Ids, NEW c \in Clients, NEW old \in Ids, RefreshToken(t, c, old)
      PROVE  TypeOK'
  <2>1. AddToken(t, disk, caps[old], RefreshTTL) /\ RefreshTTL \in Nat
    BY <1>3 DEF RefreshToken, MintToken
  <2>2. QED
    BY <1>3, <2>1, AddTokenType, RegisterType DEF RefreshToken
<1>4. ASSUME NEW t \in Ids, NEW c \in Clients,
             ReceiveRefreshed(c, t) \/ Authenticate(c, t) \/ RefuseRefresh(c, t)
      PROVE  TypeOK'
  <2>1. CASE ReceiveRefreshed(c, t)
    BY <2>1 DEF ReceiveRefreshed, SaveToken
  <2>2. CASE Authenticate(c, t) \/ RefuseRefresh(c, t)
    BY <2>2, RegisterType DEF Authenticate, RefuseRefresh
  <2>3. QED
    BY <1>4, <2>1, <2>2
<1>5. CASE Restart
  BY <1>5 DEF Restart, Unexpired, Loses, FaultUnless
<1>6. CASE Tick
  BY <1>6 DEF Tick
<1>7. CASE UNCHANGED vars
  BY <1>7 DEF vars
<1>8. QED
  BY <1>1, <1>2, <1>3, <1>4, <1>5, <1>6, <1>7 DEF Next

\* Every state of the token chain is well typed.
THEOREM TypeCorrect == Spec => []TypeOK
<1>1. Init => TypeOK
  BY TimesAssumption, HostAssumption DEF Init, TypeOK, Ids
<1>2. QED
  BY <1>1, TypeStep, PTL DEF Spec

-----------------------------------------------------------------------------
(* The inductive step *)

\* A new token: nothing that exists changes, and what it hangs under exists.
LEMMA AddTokenExtends ==
    ASSUME TypeOK, NEW t \in Ids, NEW p, NEW C, NEW ttl, AddToken(t, p, C, ttl)
    PROVE  /\ t \notin Minted /\ Minted' = Minted \cup {t}
           /\ parent'[t] = p /\ caps'[t] = C
           /\ \A u \in Minted : /\ parent'[u] = parent[u]
                                /\ caps'[u] = caps[u]
                                /\ exp'[u] = exp[u]
BY TimesAssumption DEF TypeOK, AddToken, Minted, Ids

\* mint-root: the new root claims everything and hangs under nothing.
LEMMA MintRootKeeps ==
    ASSUME IInv, TypeOK', NEW t \in Ids, MintRoot(t)
    PROVE  IInv'
<1> USE TimesAssumption, HostAssumption DEF IInv, TypeOK, MintRoot, SaveToken, brokerVars
<1>1. /\ t \notin Minted /\ Minted' = Minted \cup {t}
      /\ parent'[t] = NoToken
      /\ \A u \in Minted : parent'[u] = parent[u] /\ caps'[u] = caps[u]
  BY AddTokenExtends
<1>2. t # NoToken /\ NoToken \notin Minted
  BY DEF Ids, Minted, NoToken
<1>3. OnlyMinted' /\ ChainsEnd'
  BY <1>1 DEF OnlyMinted, ChainsEnd
<1>4. MintedIsAttenuated'
  BY <1>1, <1>2 DEF MintedIsAttenuated, ChainsEnd, Minted
<1>5. RootsAreRoots'
  BY <1>1 DEF RootsAreRoots, OnlyMinted
<1>6. GrantedUnderRoot'
  BY <1>1 DEF GrantedUnderRoot, OnlyMinted, ChainsEnd
<1>7. QED
  BY <1>3, <1>4, <1>5, <1>6 DEF SavedOrLost

\* issue-token: attenuated by MintToken, under a token its machine has.
LEMMA IssueTokenKeeps ==
    ASSUME IInv, TypeOK', NEW t \in Ids, NEW c \in Clients, NEW d \in Clients,
           NEW C \in SUBSET Caps, NEW ttl \in ChildTTLs, IssueToken(t, d, c, C, ttl)
    PROVE  IInv'
<1> DEFINE p == SigningToken(d)
<1> USE TimesAssumption, HostAssumption DEF IInv, TypeOK, IssueToken, SaveToken, brokerVars
<1>1. /\ t \notin Minted /\ Minted' = Minted \cup {t}
      /\ parent'[t] = p /\ caps'[t] = C
      /\ \A u \in Minted : parent'[u] = parent[u] /\ caps'[u] = caps[u]
  BY AddTokenExtends DEF MintToken
<1>2. p \in Minted /\ C \subseteq caps[p]
  BY DEF MintToken, SigningToken, OnlyMinted, RootsAreRoots
<1> HIDE DEF p
<1>3. t # NoToken /\ NoToken \notin Minted
  BY DEF Ids, Minted, NoToken
<1>4. OnlyMinted' /\ ChainsEnd'
  BY <1>1, <1>2 DEF OnlyMinted, ChainsEnd
<1>5. MintedIsAttenuated'
  BY <1>1, <1>2, <1>3 DEF MintedIsAttenuated, ChainsEnd, Minted
<1>6. RootsAreRoots'
  BY <1>1 DEF RootsAreRoots, OnlyMinted
<1>7. GrantedUnderRoot'
  BY <1>1 DEF GrantedUnderRoot, OnlyMinted, ChainsEnd
<1>8. QED
  BY <1>4, <1>5, <1>6, <1>7 DEF SavedOrLost

\* A token that is registered is in the table afterwards, or its Save has failed.
LEMMA RegisterSaves ==
    ASSUME NEW T, SavedOrLost, Register(T)
    PROVE  known' = known \cup T /\ saved' \subseteq saved \cup T /\ SavedOrLost'
BY DEF SavedOrLost, Register, Loses

\* /refresh-token: the new token hangs under the root on disk.
LEMMA RefreshTokenKeeps ==
    ASSUME IInv, TypeOK', NEW t \in Ids, NEW c \in Clients, NEW old \in Ids,
           RefreshToken(t, c, old)
    PROVE  IInv'
<1> USE TimesAssumption DEF IInv, TypeOK, RefreshToken, MayRefresh
<1>0. known' = known \cup {old, t} /\ saved' \subseteq saved \cup {old, t} /\ SavedOrLost'
  BY RegisterSaves
<1>1. /\ t \notin Minted /\ Minted' = Minted \cup {t}
      /\ parent'[t] = disk /\ caps'[t] = caps[old] /\ caps[old] \subseteq caps[disk]
      /\ \A u \in Minted : parent'[u] = parent[u] /\ caps'[u] = caps[u]
  BY AddTokenExtends DEF MintToken
<1>2. old \in Minted
  BY DEF OnlyMinted
<1>3. t # NoToken /\ NoToken \notin Minted
  BY DEF Ids, Minted, NoToken
<1>4. OnlyMinted'
  BY <1>0, <1>1, <1>2 DEF OnlyMinted
<1>5. ChainsEnd'
  BY <1>1 DEF ChainsEnd, RootsAreRoots
<1>6. MintedIsAttenuated'
  <2>1. /\ \A u \in Minted : parent[u] # NoToken =>
              parent[u] \in Minted /\ caps[u] \subseteq caps[parent[u]]
        /\ disk \in Minted
    BY DEF MintedIsAttenuated, ChainsEnd, RootsAreRoots, Minted
  <2>2. \A u \in Minted' : parent'[u] # NoToken => caps'[u] \subseteq caps'[parent'[u]]
    BY <1>1, <2>1
  <2>3. QED
    BY <2>2 DEF MintedIsAttenuated, Minted
<1>7. RootsAreRoots'
  BY <1>0, <1>1 DEF RootsAreRoots, OnlyMinted
<1>8. GrantedUnderRoot'
  BY <1>1, <1>3 DEF GrantedUnderRoot, OnlyMinted, ChainsEnd, RootsAreRoots
<1>9. QED
  BY <1>0, <1>4, <1>5, <1>6, <1>7, <1>8

\* Requests that mint nothing, a restart and the clock leave the chain alone.
LEMMA ChainStays ==
    ASSUME IInv, TypeOK', UNCHANGED <<minted, parent, caps, disk, granted>>,
           SavedOrLost', known' \subseteq Minted, saved' \subseteq Minted,
           booted' # NoToken => booted' \in known' /\ parent[booted'] = NoToken,
           \A c \in Clients : held'[c] \subseteq Minted /\ auth'[c] \in Minted \cup {NoToken}
    PROVE  IInv'
<1> USE DEF IInv, TypeOK, Minted
<1>1. OnlyMinted' /\ ChainsEnd'
  BY DEF OnlyMinted, ChainsEnd
<1>2. MintedIsAttenuated' /\ RootsAreRoots' /\ GrantedUnderRoot'
  BY DEF MintedIsAttenuated, RootsAreRoots, GrantedUnderRoot
<1>3. QED
  BY <1>1, <1>2

\* Every command, request, restart and tick keeps IInv.
LEMMA InductiveStep == IInv /\ [Next]_vars => IInv'
<1> SUFFICES ASSUME IInv, [Next]_vars PROVE IInv'
  OBVIOUS
<1>t. TypeOK'
  BY TypeStep DEF IInv
<1>k. /\ TypeOK /\ SavedOrLost /\ known \subseteq Minted /\ saved \subseteq Minted
      /\ disk \in Minted /\ parent[disk] = NoToken
      /\ booted # NoToken => booted \in known /\ parent[booted] = NoToken
      /\ \A c \in Clients : held[c] \subseteq Minted /\ auth[c] \in Minted \cup {NoToken}
  BY DEF IInv, OnlyMinted, RootsAreRoots
<1> USE <1>t
<1>1. ASSUME NEW t \in Ids, MintRoot(t) PROVE IInv'
  BY <1>1, MintRootKeeps
<1>2. ASSUME NEW t \in Ids, NEW c \in Clients, NEW d \in Clients, NEW C \in SUBSET Caps,
             NEW ttl \in ChildTTLs, IssueToken(t, d, c, C, ttl)
      PROVE  IInv'
  BY <1>2, IssueTokenKeeps
<1>3. ASSUME NEW t \in Ids, NEW c \in Clients, NEW old \in Ids, RefreshToken(t, c, old)
      PROVE  IInv'
  BY <1>3, RefreshTokenKeeps
<1>4. ASSUME NEW t \in Ids, NEW c \in Clients,
             Authenticate(c, t) \/ RefuseRefresh(c, t)
      PROVE  IInv'
  <2>1. known' = known \cup {t} /\ saved' \subseteq saved \cup {t} /\ SavedOrLost'
    BY <1>4, <1>k, RegisterSaves DEF Authenticate, RefuseRefresh
  <2>2. QED
    BY <1>4, <1>k, <2>1, ChainStays DEF Authenticate, RefuseRefresh, MayRefresh, tokenVars
<1>5. ASSUME NEW t \in Ids, NEW c \in Clients, ReceiveRefreshed(c, t)
      PROVE  IInv'
  <2>1. t \in Minted
    <3>1. granted[t] # NoClient
      BY <1>5, HostAssumption DEF ReceiveRefreshed
    <3>2. QED
      BY <3>1 DEF IInv, OnlyMinted
  <2>2. QED
    BY <1>5, <1>k, <2>1, ChainStays DEF ReceiveRefreshed, SaveToken, TypeOK, tokenVars, brokerVars, SavedOrLost
<1>6. CASE Restart
  <2>1. /\ known' \cup saved' \subseteq saved \cup {disk} /\ SavedOrLost'
        /\ booted' = NoToken \/ (booted' = disk /\ disk \in known')
    BY <1>6 DEF Restart, Unexpired, Loses, SavedOrLost
  <2>2. QED
    BY <1>6, <1>k, <2>1, ChainStays DEF Restart, tokenVars
<1>7. CASE Tick
  BY <1>7, <1>k, ChainStays DEF Tick, tokenVars, brokerVars, SavedOrLost
<1>8. CASE UNCHANGED vars
  BY <1>8, <1>k, ChainStays DEF vars, tokenVars, brokerVars, SavedOrLost
<1>9. QED
  BY <1>1, <1>2, <1>3, <1>4, <1>5, <1>6, <1>7, <1>8 DEF Next

\* IInv holds once the broker has been initialised and started, and from then on.
LEMMA InductiveInvariant == Spec => []IInv
<1>1. Init => IInv
  <2>1. Init => TypeOK
    BY TimesAssumption, HostAssumption DEF Init, TypeOK, Ids
  <2>2. ASSUME Init PROVE Minted = {1}
    BY <2>2 DEF Init, Minted
  <2>3. QED
    BY <2>1, <2>2, TimesAssumption
    DEF Init, IInv, Ids, OnlyMinted, ChainsEnd, MintedIsAttenuated, RootsAreRoots,
        SavedOrLost, GrantedUnderRoot, Minted, NoToken, NoClient
<1>2. QED
  BY <1>1, InductiveStep, PTL DEF Spec

-----------------------------------------------------------------------------
(* The theorems *)

\* Down every chain capabilities only shrink, whoever minted the token: what
\* validate checks against the parent never fails for a token that MintToken made.
THEOREM CapabilitiesShrink == Spec => []MintedIsAttenuated
BY InductiveInvariant, PTL DEF IInv

\* A token under the root the broker started with passes ValidateWithGrace while its
\* grace period lasts.
THEOREM RootChildrenStayRefreshable == Spec => []RootChildrenCanRefresh
<1>1. IInv => RootChildrenCanRefresh
  BY DEF IInv, OnlyMinted, RootsAreRoots, MintedIsAttenuated, Minted,
         RootChildrenCanRefresh, AcceptsWithGrace, ChainOK
<1>2. QED
  BY <1>1, InductiveInvariant, PTL

\* A token /refresh-token granted is refused before its time only if mint-root had
\* replaced the root on disk under the running broker.
THEOREM GrantsStayUsable == Spec => []GrantedIsUsable
<1>1. IInv => GrantedIsUsable
  BY DEF IInv, OnlyMinted, RootsAreRoots, MintedIsAttenuated, Minted, GrantedUnderRoot,
         GrantedIsUsable, Accepts, ChainOK
<1>2. QED
  BY <1>1, InductiveInvariant, PTL

\* No request, refresh, root rotation or restart takes a token away whose parent has
\* not expired: loadKnownTokens restores every row that matters, but for the tokens the
\* broker has failed to write or to load.
THEOREM TimeAloneRevokes == Spec => OnlyTimeRevokes
<1> DEFINE Stays(t) == /\ clock' = clock
                       /\ Accepts(t)
                       /\ parent[t] # NoToken => exp[parent[t]] >= clock
                       => Accepts(t)' \/ parent[t] \in lost'
<1>1. IInv /\ [Next]_vars => [\A t \in 1 .. minted : Stays(t)]_vars
  <2> SUFFICES ASSUME IInv, [Next]_vars, NEW t \in Minted,
                      clock' = clock, Accepts(t),
                      parent[t] # NoToken => exp[parent[t]] >= clock
               PROVE  Accepts(t)' \/ parent[t] \in lost'
    BY DEF Minted
  <2>1. \A u \in Minted : /\ parent'[u] = parent[u]
                          /\ caps'[u] = caps[u]
                          /\ exp'[u] = exp[u]
    <3>1. CASE UNCHANGED tokenVars
      BY <3>1 DEF tokenVars
    <3>2. ASSUME NEW n \in Ids, NEW p, NEW C, NEW ttl, AddToken(n, p, C, ttl)
          PROVE  \A u \in Minted : /\ parent'[u] = parent[u]
                                   /\ caps'[u] = caps[u]
                                   /\ exp'[u] = exp[u]
      BY <3>2, AddTokenExtends DEF IInv
    <3>3. QED
      BY <3>1, <3>2
      DEF Next, vars, MintRoot, IssueToken, MintToken, RefreshToken, ReceiveRefreshed,
          Authenticate, RefuseRefresh, Restart, Tick
  <2>2. \A u \in known : exp[u] >= clock => u \in known' \cup lost'
    <3>1. CASE Restart
      BY <3>1 DEF IInv, SavedOrLost, Restart, Unexpired, Loses
    <3>2. CASE known \subseteq known'
      BY <3>2
    <3>3. QED
      BY <3>1, <3>2
      DEF Next, vars, brokerVars, MintRoot, IssueToken, RefreshToken, ReceiveRefreshed,
          Authenticate, RefuseRefresh, Tick, Register
  <2>3. parent[t] # NoToken => parent[t] \in known /\ parent[t] \in Minted
    BY DEF IInv, OnlyMinted, Accepts, ChainOK
  <2>4. QED
    BY <2>1, <2>2, <2>3 DEF Accepts, ChainOK
<1>2. QED
  BY <1>1, InductiveInvariant, PTL DEF Spec, OnlyTimeRevokes
=============================================================================
