SPECIFICATION ListSpec
CONSTANTS
    Nums = {n1, n2}
    Mem = {a, b}
    Reqs = {r1}
    None = None
    Careful = {"nothing", "open", "create", "xattrcreate", "clunk", "remove", "walk", "xattrwalk", "attach", "auth"}
    CloneFails = {TRUE, FALSE}
INVARIANT ListedConstructed
