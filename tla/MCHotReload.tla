----------------------------- MODULE MCHotReload -----------------------------
(* Small instances of HotReload for TLC. *)
EXTENDS HotReload

CONSTANTS plain,     \* direct upstreams only
          discovery, \* a registry as well
          badHeader, \* loads, but its response_headers do not compile
          torn,      \* half-written: does not parse
          g1

MCContents == {plain, discovery, badHeader, torn}
MCLoadable == {plain, discovery, badHeader}
MCCompilable == {plain, discovery}
MCSources == [c \in Contents |-> IF c = discovery THEN {g1} ELSE {}]
=============================================================================
