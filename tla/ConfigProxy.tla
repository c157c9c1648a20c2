---------------------------- MODULE ConfigProxy ----------------------------
(***************************************************************************)
(* The top-level Iroha ConfigurationProxy (src/config/src/iroha.rs): a    *)
(* record of optional fields that a caller fills in (from a file, the      *)
(* environment, or by assignment: the fields are public), then finalises   *)
(* with finish, which infers the Sumeragi key pair and peer id from the    *)
(* top-level keys and the Torii p2p address, and builds with build, which  *)
(* finishes and then fails on any field still None.                        *)
(*                                                                         *)
(* Data is abstracted to what finish and build tell apart: keys and        *)
(* addresses are model values, the inner sections other than Sumeragi and  *)
(* Torii are one flag saying whether every field of theirs is present.     *)
(***************************************************************************)
EXTENDS FiniteSets

CONSTANTS
    PublicKeys,     \* public keys a caller may configure
    PrivateKeys,    \* private keys a caller may configure
    Matching,       \* the <<public, private>> pairs KeyPair::new accepts
    Addrs,          \* p2p addresses
    Chains,         \* chain ids
    None            \* Option::None

ASSUME /\ Matching \subseteq PublicKeys \X PrivateKeys
       /\ None \notin PublicKeys \cup PrivateKeys \cup Addrs \cup Chains

VARIABLES
    proxy,          \* the ConfigurationProxy
    phase,          \* "open" until build consumes the proxy, then "built"
    result,         \* outcome of the last finish or build: "none", "Ok" or an error
    config,         \* the Configuration build returned, or None
    keyPairFrom     \* ghost: who wrote sumeragi.key_pair ("none", "caller", "finish")

vars == <<proxy, phase, result, config, keyPairFrom>>

Opt(S) == S \cup {None}
PeerIds == Addrs \X PublicKeys

SumeragiProxy ==
    [key_pair : Opt(Matching), peer_id : Opt(PeerIds), trusted_peers : SUBSET PeerIds]
ToriiProxy == [p2p_addr : Opt(Addrs)]

\* The values of every field: Some(value) or None, as arb_proxy generates.
ProxyValues ==
    [chain_id : Opt(Chains), public_key : Opt(PublicKeys), private_key : Opt(PrivateKeys),
     sumeragi : Opt(SumeragiProxy), torii : Opt(ToriiProxy), others : BOOLEAN]

\* ConfigurationProxy::default(): no chain id and no keys, every section
\* Some(default); the defaults of Sumeragi and Torii infer nothing and name
\* no address, and those of the other sections may leave fields None.
DefaultProxies ==
    {[chain_id |-> None, public_key |-> None, private_key |-> None,
      sumeragi |-> [key_pair |-> None, peer_id |-> None, trusted_peers |-> {}],
      torii |-> [p2p_addr |-> None], others |-> o] : o \in BOOLEAN}

Errors == {"ProvidedInferredField:key_pair", "MissingField:keys", "KeyPairMismatch",
           "MissingField:p2p_addr", "ProvidedInferredField:peer_id", "MissingField:build"}

Outcome(p, err) == [proxy |-> p, err |-> err]

\* Mutants of Finish.  FinishKeepsPeerId keeps a peer id the caller gave
\* (the TODO at line 136: warn instead of failing); FinishNoKeyCheck sets
\* the key pair without KeyPair::new's check that the keys match.
FinishKeepsPeerId(p) ==
    LET kp == <<p.public_key, p.private_key>>
        withKeys == [p EXCEPT !.sumeragi.key_pair = kp]
        peer == IF p.sumeragi # None /\ p.sumeragi.peer_id # None THEN p.sumeragi.peer_id
                ELSE <<IF p.torii = None THEN None ELSE p.torii.p2p_addr, p.public_key>>
        done == [withKeys EXCEPT !.sumeragi.peer_id = peer,
                                 !.sumeragi.trusted_peers = @ \cup {peer}]
    IN  CASE p.sumeragi = None -> Outcome(p, "Ok")
          [] p.sumeragi.key_pair # None -> Outcome(p, "ProvidedInferredField:key_pair")
          [] p.public_key = None \/ p.private_key = None -> Outcome(p, "MissingField:keys")
          [] kp \notin Matching -> Outcome(p, "KeyPairMismatch")
          [] p.torii = None -> Outcome(withKeys, "MissingField:p2p_addr")
          [] p.torii.p2p_addr = None /\ p.sumeragi.peer_id = None ->
                Outcome(withKeys, "MissingField:p2p_addr")
          [] OTHER -> Outcome(done, "Ok")

FinishNoKeyCheck(p) ==
    LET kp == <<p.public_key, p.private_key>>
        withKeys == [p EXCEPT !.sumeragi.key_pair = kp]
        peer == <<IF p.torii = None THEN None ELSE p.torii.p2p_addr, p.public_key>>
        done == [withKeys EXCEPT !.sumeragi.peer_id = peer,
                                 !.sumeragi.trusted_peers = @ \cup {peer}]
    IN  CASE p.sumeragi = None -> Outcome(p, "Ok")
          [] p.sumeragi.key_pair # None -> Outcome(p, "ProvidedInferredField:key_pair")
          [] p.public_key = None \/ p.private_key = None -> Outcome(p, "MissingField:keys")
          [] p.torii = None -> Outcome(withKeys, "MissingField:p2p_addr")
          [] p.sumeragi.peer_id # None -> Outcome(withKeys, "ProvidedInferredField:peer_id")
          [] p.torii.p2p_addr = None -> Outcome(withKeys, "MissingField:p2p_addr")
          [] OTHER -> Outcome(done, "Ok")

\* ConfigurationProxy::finish.  The key pair is written into the Sumeragi
\* proxy before the Torii checks, so an error there leaves it written.
Finish(p) ==
    LET s == p.sumeragi
        kp == <<p.public_key, p.private_key>>
        withKeys == [p EXCEPT !.sumeragi.key_pair = kp]
        peer == <<IF p.torii = None THEN None ELSE p.torii.p2p_addr, p.public_key>>
        done == [withKeys EXCEPT !.sumeragi.peer_id = peer,
                                 !.sumeragi.trusted_peers = @ \cup {peer}]
    IN  CASE s = None -> Outcome(p, "Ok")
          [] s.key_pair # None -> Outcome(p, "ProvidedInferredField:key_pair")
          [] p.public_key = None \/ p.private_key = None -> Outcome(p, "MissingField:keys")
          [] kp \notin Matching -> Outcome(p, "KeyPairMismatch")
          [] p.torii = None -> Outcome(withKeys, "MissingField:p2p_addr")
          [] s.peer_id # None -> Outcome(withKeys, "ProvidedInferredField:peer_id")
          [] p.torii.p2p_addr = None -> Outcome(withKeys, "MissingField:p2p_addr")
          [] OTHER -> Outcome(done, "Ok")

\* <ConfigurationProxy as Builder>::build: every field, and every field of
\* the inner sections, must be Some.
Complete(p) ==
    /\ \A f \in {"chain_id", "public_key", "private_key", "sumeragi", "torii"} : p[f] # None
    /\ p.others
    /\ p.sumeragi.key_pair # None /\ p.sumeragi.peer_id # None
    /\ p.torii.p2p_addr # None

Build(p) ==
    LET f == Finish(p)
    IN  CASE f.err # "Ok" -> f
          [] ~Complete(f.proxy) -> Outcome(f.proxy, "MissingField:build")
          [] OTHER -> f

-----------------------------------------------------------------------------
Init ==
    /\ proxy \in DefaultProxies
    /\ phase = "open"
    /\ result = "none"
    /\ config = None
    /\ keyPairFrom = "none"

\* The caller sets one field of the proxy (loading a file or the
\* environment, or assigning it).
FieldValues ==
    [chain_id |-> Opt(Chains), public_key |-> Opt(PublicKeys),
     private_key |-> Opt(PrivateKeys), torii |-> Opt(ToriiProxy), others |-> BOOLEAN]

SetField ==
    /\ phase = "open"
    /\ \E f \in DOMAIN FieldValues : \E v \in FieldValues[f] : proxy' = [proxy EXCEPT ![f] = v]
    /\ UNCHANGED <<phase, result, config, keyPairFrom>>

\* The caller sets the Sumeragi section, or one field of it.
SetSumeragi ==
    /\ phase = "open"
    /\ \/ \E v \in Opt(SumeragiProxy) :
             /\ proxy' = [proxy EXCEPT !.sumeragi = v]
             /\ keyPairFrom' = IF v # None /\ v.key_pair # None THEN "caller" ELSE "none"
       \/ /\ proxy.sumeragi # None
          /\ \E kp \in Opt(Matching) :
                /\ proxy' = [proxy EXCEPT !.sumeragi.key_pair = kp]
                /\ keyPairFrom' = IF kp # None THEN "caller" ELSE "none"
    /\ UNCHANGED <<phase, result, config>>

\* The caller calls proxy.finish().
FinishStep ==
    /\ phase = "open"
    /\ LET f == Finish(proxy) IN
          /\ proxy' = f.proxy
          /\ result' = f.err
          /\ keyPairFrom' = IF proxy.sumeragi # None /\ proxy.sumeragi.key_pair = None
                                  /\ f.proxy.sumeragi.key_pair # None
                            THEN "finish" ELSE keyPairFrom
    /\ UNCHANGED <<phase, config>>

\* The caller calls proxy.build(), which consumes the proxy.
BuildStep ==
    /\ phase = "open"
    /\ LET b == Build(proxy) IN
          /\ result' = b.err
          /\ config' = IF b.err = "Ok" THEN b.proxy ELSE None
          /\ keyPairFrom' = IF proxy.sumeragi # None /\ proxy.sumeragi.key_pair = None
                                  /\ b.proxy.sumeragi.key_pair # None
                            THEN "finish" ELSE keyPairFrom
    /\ phase' = "built"
    /\ UNCHANGED proxy

Next == SetField \/ SetSumeragi \/ FinishStep \/ BuildStep

Spec == Init /\ [][Next]_vars

-----------------------------------------------------------------------------
\* Every variable has its type.
TypeOK ==
    /\ proxy \in ProxyValues
    /\ phase \in {"open", "built"}
    /\ result \in {"none", "Ok"} \cup Errors
    /\ config \in Opt(ProxyValues)
    /\ keyPairFrom \in {"none", "caller", "finish"}

\* Whatever the caller did to the proxy, a Configuration that build returns
\* is coherent, as the doc comment of finish promises (lines 91-94): the
\* Sumeragi key pair is the top-level key pair, the peer id is the Torii
\* p2p address with the top-level public key, and the peer trusts itself.
BuiltConfigCoherent ==
    config # None =>
        /\ config.sumeragi.key_pair = <<config.public_key, config.private_key>>
        /\ config.sumeragi.peer_id = <<config.torii.p2p_addr, config.public_key>>
        /\ config.sumeragi.peer_id \in config.sumeragi.trusted_peers

\* finish reports the key pair as a provided inferred field only when the
\* caller provided it: its doc comment says it fails only "if the relevant
\* uppermost Iroha config fields were not provided", and the message tells
\* the user to omit KEY_PAIR.  A finish that wrote the key pair itself (a
\* finish before build, or a retry after a Torii error) must not count.
InferredFieldBlamesCaller ==
    [][(FinishStep \/ BuildStep) /\ result' = "ProvidedInferredField:key_pair"
          => keyPairFrom = "caller"]_vars

=============================================================================
