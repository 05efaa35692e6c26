SPECIFICATION Spec
CONSTANTS
    Nums = {n1, n2}
    Mem = {a, b}
    Reqs = {r1, r2}
    None = None
    Careful = {"nothing", "open", "create", "xattrcreate", "clunk", "remove", "walk", "xattrwalk", "attach", "auth"}
    CloneFails = {FALSE}
INVARIANTS TypeOK NoDangling GrantedKept NoCorpse ChecksHold
SYMMETRY Symmetry
