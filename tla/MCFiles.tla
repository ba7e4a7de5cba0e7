------------------------------ MODULE MCFiles ------------------------------
EXTENDS FilesCorrect, TLC

CONSTANTS u, v, w, a, b, x

(* Calls by name and calls through what is open *)
By(op, owner, name, arg) == [op |-> op, owner |-> owner, name |-> name, arg |-> arg, via |-> FALSE]
Via(op, arg) == [op |-> op, owner |-> None, name |-> None, arg |-> arg, via |-> TRUE]
To(owner, name) == [owner |-> owner, name |-> name]

Guest == {
    By("open", v, a, {"rw", "create"}), By("open", v, b, {"rw", "create"}),
    Via("read", None), Via("write", x),
    By("getattr", v, a, None), By("access", v, a, "w"), By("truncate", v, a, None),
    By("rename", v, a, To(v, b)), By("rename", u, a, To(v, b)),
    By("readdir", v, None, None), By("unlink", v, a, None),
    By("readdir", Root, None, None), By("getattr", Root, None, None)}
Host == {
    By("open", v, a, {"rw"}), Via("read", None), Via("write", x), Via("truncate", None),
    By("truncate", v, a, None), Via("chmod", TRUE), By("getattr", v, a, None),
    By("unlink", v, a, None), By("unlink", v, b, None), By("rename", v, a, To(v, b)),
    By("symlink", v, b, a), By("readlink", v, b, None),
    By("mkdir", v, b, None), By("rmdir", v, b, None), By("access", v, a, "w"),
    By("readdir", v, None, None), By("access", Root, None, "w"), By("access", Root, None, "invalid"),
    By("rename", Root, None, To(Root, None)), By("link", v, a, None)}
MCRequests == u :> Guest @@ v :> Host
MCRenames ==
    u :> {By("rename", v, a, To(w, b)), By("rename", u, a, To(v, b))} @@ v :> {} @@ w :> {}
=============================================================================
