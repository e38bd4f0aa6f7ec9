SPECIFICATION FilesSpec
CONSTANTS
  Scripts = {"elliptic", "gnn", "autoencoder", "isolation_forest", "dataset_v1", "live_v1", "dataset_v2", "live_v2", "baseline", "live_baseline"}
  Programs = {"pipeline", "api", "backtest"}
  Sizes = {1, 2}
  F1s = {0, 1}
  MaxRuns = 5
  MaxEpochs = 2
CONSTRAINT MCScenario
INVARIANTS LoadedTogether  CheckpointIsBest
