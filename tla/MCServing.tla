----------------------------- MODULE MCServing -----------------------------
(* Model-checking instances of Serving.                                    *)
EXTENDS Serving, TLC

CONSTANTS h1, h2, f1, f2

\* Two fetches of one blob; one of them asks for a document as well.
Shared == (f1 :> <<h1>>) @@ (f2 :> <<h2, h1>>)

BlobAndDocument == {<<"blob", h1>>, <<"document", h2>>}

=============================================================================
