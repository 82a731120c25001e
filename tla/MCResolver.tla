------------------------------ MODULE MCResolver ------------------------------
(***************************************************************************)
(* Five files: a program with RPATH, one with RUNPATH as well, a secure    *)
(* 32-bit one that takes its library from a directory it must not use, one *)
(* that ELFInspector gave up on, and the library that satisfies the rest.  *)
(***************************************************************************)
EXTENDS Resolver

MCFile == {"app", "tool", "suid", "broken", "libz"}
MCName == {"libx", "liby", "/more/libz"}
MCDir == {"own", "run", "more", "usr"}
MCAbsPath == [n \in {"/more/libz"} |-> <<"more", "liby">>]

Base == [isDynamicELF |-> TRUE, isLib |-> FALSE, is32 |-> FALSE, isSecure |-> FALSE,
         needed |-> {}, configPaths |-> << >>, rPaths |-> << >>, runPaths |-> << >>]
MCFacts ==
  [f \in MCFile |->
    CASE f = "app"    -> [Base EXCEPT !.needed = MCName, !.rPaths = <<"own", "run">>]
      [] f = "tool"   -> [Base EXCEPT !.needed = {"libx", "liby"}, !.rPaths = <<"own">>,
                                      !.runPaths = <<"run">>, !.configPaths = <<"usr">>]
      [] f = "suid"   -> [Base EXCEPT !.needed = {"libx", "liby"}, !.is32 = TRUE, !.isSecure = TRUE]
      [] f = "broken" -> [Base EXCEPT !.needed = {"libx"}, !.isDynamicELF = FALSE]
      [] f = "libz"   -> [Base EXCEPT !.needed = {"liby"}, !.isLib = TRUE]]

MCMore == <<"more">>
MCDefault == <<"usr">>

\* Some of the places at which the libraries may be.
MCKeys == {<<<<"own", "libx">>, FALSE>>, <<<<"run", "libx">>, FALSE>>, <<<<"more", "liby">>, FALSE>>,
           <<<<"more", "libx">>, TRUE>>, <<<<"usr", "liby">>, TRUE>>}
MCLdKeys == {<<"liby", FALSE>>, <<"libx", TRUE>>}
AllToLibz(keys) == [k \in keys |-> "libz"]
MCAdditions == {AllToLibz(s) : s \in SUBSET {<<<<"usr", "libx">>, FALSE>>, <<<<"own", "libx">>, FALSE>>,
                                              <<<<"usr", "libx">>, TRUE>>}}
MCSystems == {[libs |-> AllToLibz(s), ldCache |-> AllToLibz(t)] :
                s \in SUBSET MCKeys, t \in SUBSET MCLdKeys}
=============================================================================
