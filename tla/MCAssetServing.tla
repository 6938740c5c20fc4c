--------------------------- MODULE MCAssetServing ---------------------------
(* TLC instance of AssetServing: archives of at most two modules that may  *)
(* expand to three units, and one GET or HEAD request after the other.     *)
EXTENDS AssetServing

CONSTANTS m1, m2        \* the module names

File(name, size) == [name |-> name, originalSize |-> size, size |-> size, corrupt |-> FALSE, json |-> TRUE]

ReleaseOf(entries) ==
    [path |-> "/admin/releases", method |-> "POST", token |-> AdminPassword, versionValid |-> TRUE,
     contentLength |-> Len(entries), byteLength |-> Len(entries), entries |-> entries]

Single == <<File(m1, 1), File(Manifest, 1)>>

(* Archives at the limits and one step beyond each.                        *)
Archives ==
    {Single,
     <<File(Manifest, 1), File(m1, 1), File(m2, 1)>>,
     <<File(m1, 1), [File(m1, 1) EXCEPT !.size = 0], File(Manifest, 1)>>,
     <<File(m1, 1), File(m2, 2), File(Manifest, 1)>>,
     <<File(m1, 1), File(m1, 1), File(m2, 1)>>,
     <<File(m1, 0), File(m1, 0), File(m2, 0), File(Manifest, 1)>>,
     <<File("notes.txt", 0), File(m1, 1), File(Manifest, 1)>>,
     <<[File(m1, 1) EXCEPT !.size = 2], File(Manifest, 1)>>,
     <<[File(m1, 1) EXCEPT !.originalSize = None], File(Manifest, 1)>>,
     <<[File(m1, 1) EXCEPT !.corrupt = TRUE], File(Manifest, 1)>>,
     <<File(m1, 1), [File(Manifest, 1) EXCEPT !.json = FALSE]>>,
     <<File(Manifest, 1)>>, <<>>}

MCAdminRequests ==
    {ReleaseOf(a) : a \in Archives}
    \cup {[ReleaseOf(Single) EXCEPT !.method = "GET"], [ReleaseOf(Single) EXCEPT !.token = None],
          [ReleaseOf(Single) EXCEPT !.versionValid = FALSE],
          [ReleaseOf(Single) EXCEPT !.contentLength = None],
          [ReleaseOf(Single) EXCEPT !.contentLength = 1],
          [ReleaseOf(Single) EXCEPT !.contentLength = 5, !.byteLength = 5]}
    \cup {[path |-> "/admin/rollback", method |-> "POST", token |-> AdminPassword,
           versionValid |-> TRUE, releaseTimestamp |-> t] : t \in Stamps \cup {None}}

Path(area, t, name) ==
    [method |-> "GET", area |-> area, versionValid |-> TRUE, stamp |-> t, name |-> name]

MCPaths ==
    {Path("current", None, None), Path("current", None, m1), Path("current", None, Manifest),
     Path("current", 0, Manifest), Path("releases", None, Manifest),
     [Path("current", None, None) EXCEPT !.versionValid = FALSE], Path("other", None, None),
     [Path("current", None, m1) EXCEPT !.method = "POST"]}
    \cup {Path("releases", t, name) : t \in Stamps, name \in {m2, Manifest}}
=============================================================================
