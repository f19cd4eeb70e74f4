----------------------------- MODULE MCCsoLinker -----------------------------
(* CsoLinker with two modules over small sets of libraries.  A world says    *)
(* what each library file needs, defines and refers to.                      *)
EXTENDS CsoLinker, TLC

MCMains == <<"m1", "m2">>
MCLibs == {"a", "b", "c", "sys"}
MCFiles == {"m1", "m2", "a", "b", "c", "sys"}
MCImages == {"m1", "m2"} \X MCFiles

Ref(kind, sym) == [kind |-> kind, sym |-> sym, weak |-> FALSE]
Weak(kind, sym) == [kind |-> kind, sym |-> sym, weak |-> TRUE]

Sys == [needed  |-> [f \in MCFiles |-> <<>>],
        system  |-> {"sys"},
        present |-> MCLibs,
        tls     |-> {},
        uncopied |-> {},
        relocs  |-> [f \in MCFiles |-> <<>>],
        exports |-> [f \in MCFiles |-> IF f \in MCLibs THEN {f} ELSE {}]]

(* A chain with a shared end, its names listed twice, and one library more   *)
(* than MAX_DEPS allows.                                                     *)
Diamond ==
    [Sys EXCEPT !.needed = [@ EXCEPT !["m1"] = <<"a", "c", "b", "a">>, !["a"] = <<"b", "c">>,
                                     !["b"] = <<"c", "sys">>, !["m2"] = <<"c", "sys">>],
                !.relocs = [@ EXCEPT !["m1"] = <<Ref("symbol", "a"), Ref("symbol", "c")>>,
                                     !["a"] = <<Ref("symbol", "b"), Ref("relative", "self")>>,
                                     !["b"] = <<Weak("symbol", "sys"), Weak("symbol", "x")>>,
                                     !["m2"] = <<Weak("symbol", "sys")>>]]

(* The same with one library less, so that all of it is linked.              *)
ShortDiamond == [Diamond EXCEPT !.present = @ \ {"sys"}, !.system = {}]

(* b and c need each other, and a needs b.                                   *)
Cycle ==
    [Sys EXCEPT !.needed = [@ EXCEPT !["m1"] = <<"a", "b">>, !["a"] = <<"b">>,
                                     !["b"] = <<"c">>, !["c"] = <<"b">>, !["m2"] = <<"a">>],
                !.present = @ \ {"sys"}, !.system = {},
                !.relocs = [@ EXCEPT !["b"] = <<Ref("symbol", "c")>>,
                                     !["m2"] = <<Ref("symbol", "y")>>]]

(* Thread-local variables, by every access model.                            *)
TlsWorld ==
    [Sys EXCEPT !.needed = [@ EXCEPT !["m1"] = <<"a">>, !["m2"] = <<"b", "sys">>],
                !.present = @ \ {"sys"}, !.system = {},
                !.tls = {"m1", "m2", "a", "b"},
                !.relocs = [@ EXCEPT
                    !["m1"] = <<Ref("tlsdesc", "a"), Weak("tprel", "x"), Weak("dtpmod", "x")>>,
                    !["a"]  = <<Ref("tprel", "self")>>,
                    !["m2"] = <<Ref("dtpmod", "b"), Ref("tprel", "self")>>,
                    !["b"]  = <<Ref("tlsdesc", "self")>>]]

(* References that cannot be served.                                         *)
Refused ==
    [Sys EXCEPT !.needed = [@ EXCEPT !["m1"] = <<"a">>, !["m2"] = <<"b">>],
                !.tls = {"m1", "m2"},
                !.relocs = [@ EXCEPT
                    !["m1"] = <<Ref("tprel", "self"), Ref("symbol", "a")>>,
                    !["a"]  = <<Ref("other", "self")>>,
                    !["m2"] = <<Ref("dtpmod", "b"), Ref("tprel", "b")>>]]

(* There is no memory when two libraries are to be registered.               *)
Uncopied == [ShortDiamond EXCEPT !.uncopied = {<<"m1", "b">>, <<"m2", "m2">>}]

MCWorlds == {Diamond, ShortDiamond, Cycle, TlsWorld, Refused, Uncopied}
=============================================================================
