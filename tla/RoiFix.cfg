SPECIFICATION Spec
CONSTANTS
    Descs <- MCDescs
    Kinds = {"Edge", "Dimax", "Pco4k"}
    BinRequests = {0, 1, 2, 3, 4}
    DWordMod = 256
INVARIANTS FixedIsValid FixedCovers FixedIsSmallest
