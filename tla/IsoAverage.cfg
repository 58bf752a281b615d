SPECIFICATION Spec
CONSTANT ISO_MAX_CHAN = 1
INVARIANTS OncePerSync
