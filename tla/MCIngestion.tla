---------------------------- MODULE MCIngestion ----------------------------
(***************************************************************************)
(* Small instances of Ingestion.  card is offered in BR and CO, pix in BR  *)
(* only; CO's rate is so small that a cent of it rounds to no cent of USD. *)
(***************************************************************************)
EXTENDS Ingestion, TLC

CONSTANTS s1, s2, s3, b1, b2, b3

MCPaymentMethods == {"card", "pix"}
MCCountries == {"BR", "CO"}
MCOffered == {<<"card", "BR">>, <<"card", "CO">>, <<"pix", "BR">>}
MCFx == [c \in MCCountries |-> IF c = "BR" THEN 200 ELSE 1]

T(p, c, a) == [pm |-> p, country |-> c, amount |-> a, fits |-> TRUE]

\* A single request, a batch, and the client's retry of that batch.
BatchBody == <<T("card", "BR", 10000), T("card", "CO", 900000)>>
RetryItems == [r \in {s1, b1, b2} |-> IF r = s1 THEN <<T("pix", "BR", 7500)>> ELSE BatchBody]
RetryRetry == [r \in {s1, b1, b2} |-> IF r = b2 THEN b1 ELSE r]

\* Bodies that validation or the schema refuses: a country that does not exist,
\* a text too long for its column, an amount too large for its own, a payment
\* method not offered in the country before an item that is good, an amount of
\* no cent of USD after one, a batch longer than MaxBatch.
RefusedItems ==
    (s1 :> <<T("card", "XX", 10000)>>) @@
    (s2 :> <<[T("card", "BR", 10000) EXCEPT !.fits = FALSE]>>) @@
    (s3 :> <<T("pix", "BR", 9000000)>>) @@
    (b1 :> <<T("pix", "CO", 900000), T("card", "BR", 10000)>>) @@
    (b2 :> <<T("card", "BR", 10000), T("card", "CO", 10)>>) @@
    (b3 :> [i \in 1..4 |-> T("card", "BR", 10000)])
RefusedRetry == [r \in {s1, s2, s3, b1, b2, b3} |-> r]
=============================================================================
