----------------------------- MODULE MCPltHooks -----------------------------
(* PltHooks over libandroid_runtime, libart and a library of the application *)
(* that is linked lazily.                                                    *)
EXTENDS PltHooks

Reloc(table, kind, sym, slot) == [table |-> table, kind |-> kind, sym |-> sym, slot |-> slot]

MCMapOrder == <<"runtime", "art", "app">>

(* fork is called and its address is taken.                                  *)
MCRelocs ==
    [runtime |-> <<Reloc("plt", "jump", "fork", "f1"), Reloc("rel", "abs", "fork", "f2"),
                   Reloc("plt", "jump", "property_get", "p1"), Reloc("rel", "jump", "fork", "f1"),
                   Reloc("android", "glob", "ReopenOrDetachEv", "r1")>>,
     art     |-> <<Reloc("plt", "jump", "setstacksize", "s1")>>,
     app     |-> <<Reloc("plt", "jump", "fork", "x1")>>]

MCRegion == [f1 |-> "relro", f2 |-> "relro", p1 |-> "relro", r1 |-> "anon", s1 |-> "relro",
             x1 |-> "data"]

MCPrefixOf == [ReopenOrDetach |-> {"ReopenOrDetachEv"}]

Exact(lib, name, fn) == [lib |-> lib, name |-> name, by |-> "exact", fn |-> fn]

MCRuntimeHooks == <<Exact("runtime", "fork", "zFork"),
                    Exact("runtime", "property_get", "zProperty"),
                    [lib |-> "runtime", name |-> "ReopenOrDetach", by |-> "prefix",
                     fn |-> "zReopen"]>>
MCPropertyHook == MCRuntimeHooks[2]
MCArtHook == Exact("art", "setstacksize", "zStack")
MCCoreHooks == <<MCRuntimeHooks[1], MCRuntimeHooks[3], MCArtHook>>

MCV3Hooks == {[match |-> {"runtime", "app"}, sym |-> "fork", fn |-> "aFork"],
              [match |-> {"runtime"}, sym |-> "property_get", fn |-> "aProperty"]}
MCV3Ignores == {[match |-> {"app"}, sym |-> "any"], [match |-> {"runtime"}, sym |-> "fork"]}
MCV4Hooks == {[lib |-> "app", sym |-> "fork", fn |-> "bFork"],
              [lib |-> "runtime", sym |-> "fork", fn |-> "bFork"],
              [lib |-> "art", sym |-> "setstacksize", fn |-> "bStack"]}
=============================================================================
