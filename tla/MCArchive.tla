------------------------------- MODULE MCArchive -------------------------------
(***************************************************************************)
(* good: a chain of links that begins before the file and ends after it, a *)
(* link of the same name in another directory, one to nothing, and one     *)
(* without a value.  other: the same paths with another file and another   *)
(* bitness.  torn, nameless and outside are to be ignored although they    *)
(* have files that are missed; torn has one more that nobody unpacks.      *)
(* harmless has a cycle of links that no missing one leads into, broken a  *)
(* link to itself but also a header that libarchive cannot read, circular  *)
(* a missing link that leads into a cycle.                                 *)
(***************************************************************************)
EXTENDS Archive, TLC

CONSTANTS good, other, torn, nameless, outside, harmless, broken, circular

MCPath == {"lib/x.so", "lib/x.so.1", "lib/x.so.1.0", "alt/x.so", "lib/y.so", "lib/doc", "share/y.so"}
MCNameOf == [p \in MCPath |->
  CASE p \in {"lib/x.so", "alt/x.so"} -> "x.so" [] p \in {"lib/y.so", "share/y.so"} -> "y.so" [] OTHER -> "other"]
MCMissing == {"x.so", "lib/y.so"}
MCSystemLibs == [k \in {<<"lib/y.so", TRUE>>} |-> <<"system", "lib/y.so">>]

SymLink(p, v) == [type |-> "link", path |-> p, value |-> v]
Section(type) == [type |-> type]
Dyn == [type |-> "DYNAMIC", sound |-> FALSE, entries |-> << >>]
Image(header, is32, sections) == [header |-> header, is32 |-> is32, sections |-> sections]
Lib(is32) == Image("ET_DYN", is32, <<Section("other"), Dyn, Dyn, Section("unreadable")>>)
RegFile(p, image, intact) == [type |-> "file", path |-> p, image |-> image, intact |-> intact]
Info(parses, full) == [type |-> ".PKGINFO", parses |-> parses, complete |-> full]

MCArchives == {good, other, torn, nameless, outside, harmless, broken, circular}
MCBatches == {{good, other, torn, nameless}, {outside, harmless, broken}, {circular, other}}
MCEntries ==
  good :> <<Info(TRUE, TRUE), SymLink("lib/x.so", "lib/x.so.1"), RegFile("lib/x.so.1.0", Lib(FALSE), TRUE),
            SymLink("lib/x.so.1", "lib/x.so.1.0"), SymLink("alt/x.so", "lib/x.so.1"), SymLink("lib/doc", NoPath),
            RegFile("share/y.so", Lib(FALSE), FALSE)>>
  @@ other :> <<RegFile("lib/y.so", Lib(TRUE), TRUE), RegFile("lib/x.so", Image("ET_EXEC", FALSE, <<Dyn>>), TRUE),
                RegFile("alt/x.so", Lib(FALSE), TRUE), Info(TRUE, TRUE)>>
  @@ torn :> <<Info(TRUE, TRUE), RegFile("lib/x.so", Lib(FALSE), TRUE), RegFile("lib/y.so", Lib(FALSE), FALSE)>>
  @@ nameless :> <<Info(TRUE, FALSE), RegFile("lib/x.so", Lib(TRUE), TRUE)>>
  @@ outside :> <<RegFile("lib/x.so", Lib(TRUE), TRUE), SymLink("lib/x.so.1", Outside), Info(TRUE, TRUE)>>
  @@ harmless :> <<SymLink("lib/doc", "lib/x.so.1"), SymLink("alt/x.so", "lib/x.so.1.0"), SymLink("lib/x.so.1", "lib/doc"),
                   RegFile("lib/x.so.1.0", Lib(TRUE), TRUE), Info(TRUE, TRUE)>>
  @@ broken :> <<SymLink("lib/x.so", "lib/x.so"), RegFile("lib/y.so", Lib(FALSE), TRUE), [type |-> "damaged"]>>
  @@ circular :> <<Info(TRUE, TRUE), SymLink("lib/x.so", "lib/doc"), SymLink("lib/doc", "lib/x.so.1"),
                   SymLink("lib/x.so.1", "lib/doc"), RegFile("lib/y.so", Lib(FALSE), TRUE)>>

ASSUME EachPathOnce
=============================================================================
