CONSTANTS
    r1 = r1
    r2 = r2
    r3 = r3
    r4 = r4
    k1 = k1
    k2 = k2
    Absent = Absent
    Claimed = Claimed
    Requests = {r1, r2, r3, r4}
    Keys = {k1, k2}
    KeyOf <- RequestKey
    Modes = {"direct", "transactional", "batched"}
    Regimes <- RegimesChecked
SPECIFICATION Spec
SYMMETRY Retries
INVARIANT FaultsOneRowPerKey
INVARIANT OneAnswerPerKey
INVARIANT SoundClaimResolved
CHECK_DEADLOCK FALSE
