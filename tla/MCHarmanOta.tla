----------------------------- MODULE MCHarmanOta -----------------------------
\* HarmanOta on packages of two or three images of a few units, a buffer that is
\* smaller and packets of one or two.
EXTENDS HarmanOta

One == {1}
Two == {1, 2}
Works == {"ok"}
Fails == {"ok", "bad", "misread"}
=============================================================================
