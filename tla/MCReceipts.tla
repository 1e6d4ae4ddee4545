----------------------------- MODULE MCReceipts -----------------------------
(* A small instance of Receipts for TLC. *)
EXTENDS Receipts

OtherAsset == CHOOSE a \in Asset : a # PrimaryBody.asset

OtherProvider == CHOOSE p \in Provider : p # PrimaryBody.provider

\* The demo manifest as it is and was, and of another asset: what /generate makes, with
\* its prompt in any place, and an event's, which names neither model nor provider.
TwoAssets ==
  {PrimaryBody, LegacyPrimary}
    \cup {[PrimaryBody EXCEPT !.id = m, !.asset = OtherAsset, !.provider = OtherProvider,
                              !.prompt = p] : m \in ManifestId \ {Primary}, p \in Prompt}
    \cup {[id |-> m, asset |-> OtherAsset, model |-> NoModel, provider |-> NoProvider,
           prompt |-> "none"] : m \in ManifestId \ {Primary}}

\* True claims of what is registered, and forged ones: AI that is hidden, and another
\* provider, model or asset, or none, in an otherwise true one.
Claims ==
  LET demo == ClaimOf(PrimaryBody)
  IN {ClaimOf(b) : b \in TwoAssets}
       \cup {[demo EXCEPT !.ai = FALSE], [demo EXCEPT !.provider = OtherProvider],
             [demo EXCEPT !.provider = NoProvider], [demo EXCEPT !.asset = Nothing],
             [demo EXCEPT !.model = CHOOSE g \in Generator : g # demo.model]}
=============================================================================
