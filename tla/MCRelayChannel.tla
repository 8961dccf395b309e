-------------------------- MODULE MCRelayChannel --------------------------
(* A small instance of RelayChannel for TLC: one-byte and four-byte code   *)
(* points, a zero-width one of three bytes, and patterns of two letters.   *)
EXTENDS RelayChannel

CONSTANTS a, b, crab, zero, space

MCBytes == (a :> 1) @@ (b :> 1) @@ (crab :> 4) @@ (zero :> 3) @@ (space :> 1)
MCTrifecta == {<<a, a>>}
MCInjection == {<<b, b>>}
MCForeignUrls == {<<b, a>>}

\* Clean, caught, caught only once the zero-width code point is gone, a URL in
\* the second word likewise, a URL glued to a letter (not seen by has_url), long
\* only until the code points are gone, and long.
MCInboundTexts ==
  {<<a>>, <<a, a>>, <<b, zero, b>>, <<a, space, b, zero, a>>, <<a, b, a>>,
   <<zero, zero, zero, zero>>, <<crab, crab, crab>>}

\* No chunk, one, two and three chunks of at most five bytes, and too long.
MCOutboundTexts ==
  {<< >>, <<a>>, <<a, crab, a>>, <<b, crab, b>>, <<crab, crab, a, a>>,
   <<crab, crab, crab>>}
=============================================================================
