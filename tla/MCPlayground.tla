---------------------------- MODULE MCPlayground ----------------------------
(* Small instances of Playground for TLC. *)
EXTENDS Playground, TLC

CONSTANTS q1, q2, alice

TwoCalls == {q1, q2}
OnePeer  == {alice}

\* Nothing tells one call from another.
CallSymmetry == Permutations(TwoCalls)

Asks(kind, body, flow, mode) ==
  [kind |-> kind, peer |-> alice, body |-> body, flow |-> flow, mode |-> mode]

\* Good requests of each kind, and one for each way to be refused.
Mixed ==
  {Asks(k, "good", "listed", "anonymous") : k \in Kinds}
  \cup {Asks("run", "good", "listed", "kermit"),
        Asks("agent", "good", "listed", "kermit"),
        Asks("run", "good", "refused", "unknown"),
        Asks("agent", "bad", "refused", "anonymous"),
        Asks("verify", "bad", "listed", "anonymous"),
        Asks("event", "good", "refused", "anonymous")}
=============================================================================
