SPECIFICATION Spec
CONSTANT Blocks <- Sizes
INVARIANTS DirectorySafe ImageBanked CartInPlace
