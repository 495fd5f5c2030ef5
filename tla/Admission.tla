----------------------------- MODULE Admission -----------------------------
(***************************************************************************)
(* What an agentbridge listener makes of an A2A message before it runs     *)
(* anything: the destination DID, the DID proof around the payload         *)
(* (shadi_identity/did_proof.rs), and the certificate that binds the agent *)
(* to a human (shadi_identity/binding.rs).                                 *)
(*                                                                         *)
(* Keys are their DIDs.  A signature is the key that made it: it verifies  *)
(* under the DID of that key and no other.  A message is a record          *)
(*   dest     the DID it is addressed to, or NoDid                         *)
(*   proof    "none", "broken" (an envelope that cannot be read), "signed" *)
(*   claims   the DID in the envelope's header                             *)
(*   signer   the key that signed it                                       *)
(*   binding  the certificate in the payload (see Bindings)                *)
(***************************************************************************)
CONSTANTS
  NoDid,      \* no DID: an unaddressed message, a listener without one
  NoBinding,  \* a payload that does not start with a certificate
  Malformed   \* one that starts like a certificate and cannot be split

\* A certificate names a human and an agent, and is signed by a key.
Bindings(dids) ==
  {NoBinding, Malformed}
    \cup [human : dids, agent : dids, signer : dids, expired : BOOLEAN]

\* unwrap_signed_message: the key comes from the DID that is claimed.
unwrap_signed_message(m) ==
  CASE m.proof # "signed" -> "unproven"
    [] m.proof = "signed" /\ m.signer # m.claims -> "forged"
    [] OTHER -> "verified"

\* verify_binding: the key comes from the human that is named.
verify_binding(b) == b.signer = b.human /\ ~b.expired

\* admit_binding: the certificate is of the agent that proved itself, and of a
\* human in `humans' (SHADI_MEMBER_HUMAN_DIDS) unless that is empty.
admit_binding(did, b, humans) ==
  CASE b = NoBinding -> IF humans = {} THEN "Proven" ELSE "AuthRequired"
    [] b = Malformed -> "AuthRequired"
    [] OTHER -> IF /\ verify_binding(b)
                   /\ b.agent = did
                   /\ humans = {} \/ b.human \in humans
                THEN "Proven"
                ELSE "Forged"

admit_message(m, humans) ==
  CASE unwrap_signed_message(m) = "unproven" -> "AuthRequired"
    [] unwrap_signed_message(m) = "forged" -> "Forged"
    [] OTHER -> admit_binding(m.claims, m.binding, humans)

\* The URL is only a locator: a message for another DID is not executed here.
wrong_destination(mine, m) == m.dest # NoDid /\ m.dest # mine

\* Mutant: any process that answers at the URL takes the message.
GateAnyDestination(mine, m, humans) ==
  IF admit_message(m, humans) = "Forged" THEN "Rejected" ELSE admit_message(m, humans)

\* The first gates of execute(), in their order.
Gate(mine, m, humans) ==
  CASE wrong_destination(mine, m) -> "Rejected"
    [] admit_message(m, humans) = "Forged" -> "Rejected"
    [] OTHER -> admit_message(m, humans)
============================================================================
