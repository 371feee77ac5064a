----------------------------- MODULE MCVerifier -----------------------------
(* Instances of Verifier for TLC. *)
EXTENDS Verifier, TLC

CONSTANTS i1, i2, url1, url2, c1, c2, alice, mallory

OwnUrls == [i \in Issuers |-> IF i = i1 THEN url1 ELSE url2]

MCBinding(nonce, expiry) ==
    [nonce |-> nonce, walletAddress |-> alice, contractId |-> "gate",
     networkPassphrase |-> "testnet", ledgerExpiry |-> expiry]
b1 == MCBinding("n1", 2)
b2 == MCBinding("n2", 5)
MCBindings == {b1, b2}

MCCredential(i, from, until, adult, country) ==
    [signer |-> i, country |-> country, claims |->
        [schemaVersion |-> SCHEMA_VERSION, issuerId |-> i, revocationIndex |-> 0,
         issuedAt |-> from, expiresAt |-> until, subjectBinding |-> alice, over18 |-> adult,
         over21 |-> FALSE, notSanctioned |-> TRUE, notPep |-> TRUE,
         jurisdictionOk |-> country \in Policy, livenessOk |-> TRUE]]

Adult == MCCredential(i1, 0, 3, TRUE, "DE")
Minor == MCCredential(i1, 2, 5, FALSE, "DE")
Abroad == MCCredential(i1, 0, 5, TRUE, "US")

MCCredentials == {Adult, Minor, Abroad}
InGermany ==
    AllOf({GateOnrampPredicate, CountryAllowed({"DE", "CH"}), CountryAllowed({"DE", "FR"})})
MCQuestions == {GateOnrampPredicate, StandardOnrampPredicate, InGermany}

\* Presentations of the credentials, one revealing too little, bytes that are no
\* proof, one relabelled to another challenge, one with a claim changed and one
\* with a message at another's index.
MCPresentations ==
    LET gate == GateOnrampPredicate.disclose
        good == Derive(Adult, gate, b1)
    IN {good, Derive(Adult, gate, b2), Derive(Minor, gate, b1),
        Derive(Abroad, InGermany.disclose, b2), Derive(Adult, InGermany.disclose, b2),
        Derive(Adult, StandardOnrampPredicate.disclose, b1),
        [good EXCEPT !.bytes = "garbage"], [good EXCEPT !.binding = b2],
        [Derive(Minor, gate, b2) EXCEPT !.messages["over18"].value = TRUE],
        [good EXCEPT !.messages["over18"] = good.messages["notSanctioned"]]}

\* Callers are interchangeable.
Symmetric == Permutations(Callers)
=============================================================================
