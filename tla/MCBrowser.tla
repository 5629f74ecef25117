----------------------------- MODULE MCBrowser ------------------------------
(* Model checking of ApiClient and EventStream.                             *)
EXTENDS EventStream

\* Of a session that others touch two pairs are followed, of one that they do
\* not all of them: the third pair is issued, and goes no further.
FewerInCompany == alone \/ issued < MaxPairs
=============================================================================
