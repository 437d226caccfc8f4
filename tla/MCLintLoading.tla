--------------------------- MODULE MCLintLoading ---------------------------
(* Packages 1 and 2 are plugins and package 3 is an ordinary library of a  *)
(* workspace.  The directory of package 1 has that of package 2 below it,  *)
(* which cargo does not select there, and package 2 depends on package 1,  *)
(* which lies outside its own directory.  An archive holds both plugins, 2 *)
(* first by file name.  The workspace and the two directories are path     *)
(* entries; a pin resolves to the archive or to the workspace.             *)
EXTENDS LintLoading

At(d, c) == [dir |-> d, contents |-> c]
MCMembers == [d \in Dir |-> CASE d = "workspace" -> {1, 2, 3}
                                [] d = "first" -> {1, 2}
                                [] d = "second" -> {2}
                                [] d = "archive" -> {1, 2}]
MCBuilds == [d \in Dir |-> CASE d = "workspace" -> {1, 2, 3}
                               [] d = "first" -> {1}
                               [] d = "second" -> {1, 2}
                               [] d = "archive" -> {}]
MCFileName == [p \in Cdylib |-> 3 - p]
MCEntry == {{At("workspace", "Sources")}, {At("first", "Sources")}, {At("second", "Sources")},
            {At("archive", "Libraries"), At("workspace", "Sources")}}

Lint(l, rs) == [language |-> l, rules |-> rs]
MCExport == {<<>>,
             <<Lint("Rust", {"a"})>>,
             <<Lint("Rust", {"a"}), Lint("TypeScript", {"a"})>>,
             <<Lint("Rust", {})>>,
             <<Lint("Rust", {"b"})>>,
             <<Lint("TypeScript", {"a", "b"})>>}

Version(major, minor) == [major |-> major, minor |-> minor]
Built(v, t, l) == [abi_version |-> v, types |-> t, language |-> l]
MCIdentity == {Built(Version(0, 1), 7, 8), Built(Version(0, 2), 7, 8),
               Built(Version(1, 1), 7, 8), Built(Version(1, 2), 7, 8),
               Built(Version(1, 1), 9, 8), Built(Version(1, 1), 7, 9)}
=============================================================================
