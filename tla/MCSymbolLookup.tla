---------------------------- MODULE MCSymbolLookup ----------------------------
(* Libraries a and b need each other, c needs nothing.  f is defined in b, *)
(* g nowhere (a weak reference, say), k by the kernel, l is a local        *)
(* symbol.                                                                 *)
EXTENDS SymbolLookup, TLC
CONSTANTS a, b, c, f, g, k, l
MCLibs == {a, b, c}
MCDeps == (a :> <<b>> @@ b :> <<a>> @@ c :> <<>>)
MCSymbols == {f, g, k, l}
MCDefinedIn == (f :> {b} @@ g :> {} @@ k :> {} @@ l :> {a, b, c})
=============================================================================
