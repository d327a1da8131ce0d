SPECIFICATION FilesSpec
CONSTANTS
    Files = {f1, f2, f3}
    Uploads = {u1, u2}
    Readers = {q1}
    Jobs = {j1}
    None = None
INVARIANTS StoredIsThere OrphansAreFailures
